---- MODULE Spec2Model ----
(***************************************************************************)
(* Model of the in-process TTL cache (lib/memory-cache) with its cleanup   *)
(* timer and key builder, the API caching middleware (lib/api-cache) and   *)
(* their callers, the aggregation of the dashboard's products page, the    *)
(* customers import and clear handlers, the install prompt, and the CSV    *)
(* import modal with its parser.                                           *)
(*                                                                         *)
(* Strings that the code inspects character by character (cache keys,      *)
(* invalidation patterns) are sequences of one-character strings.  Cached  *)
(* values are opaque tokens; "null" is JavaScript's null and "zero" is a   *)
(* falsy value that is not null.  An optional argument is <<>> when the    *)
(* caller omits it and <<x>> when the caller passes x.                     *)
(***************************************************************************)
EXTENDS Integers, Sequences, FiniteSets, TLC

VARIABLES store, now, last, tasks, origin, hist, timer, built, agg,
          db, reqs, pwa, modal, csv

vars == <<store, now, last, tasks, origin, hist, timer, built, agg, db, reqs, pwa, modal, csv>>

(* ------------------------------ bounds -------------------------------- *)

\* the clock stops at MaxNow milliseconds, or at MaxNow past one default TTL
MaxNow == 3

\* the interval timer is observed for MaxPeriods periods
MaxPeriods == 3

\* the order item table holds up to MaxItems rows
MaxItems == 3

\* the ranking is computed for up to MaxProducts products
MaxProducts == 5

(* ---------------------------- input sets ------------------------------ *)

Null == "null"

Zero == "zero"

KeyCA == <<"c", ":", "a">>

KeyCP == <<"c", ":", "p">>

KeyPA == <<"p", ":", "a">>

Keys == {KeyCA, KeyCP, KeyPA}

Alphabet == {"c", "p", "a", ":"}

Patterns == {<<>>} \cup {<<x>> : x \in Alphabet} \cup {<<x, y>> : x \in Alphabet, y \in Alphabet}

TTLArgs == {<<>>, <<-1>>, <<0>>, <<1>>, <<2>>}

Tasks == {"t1", "t2"}

(* --------------------------- memory-cache ----------------------------- *)

\* private defaultTTL: number = 5 * 60 * 1000
defaultTTL == 5 * 60 * 1000

EmptyStore == [k \in {} |-> [data |-> Null, timestamp |-> 0, expiresAt |-> 0]]

Put(st, k, e) == [x \in (DOMAIN st) \cup {k} |-> IF x = k THEN e ELSE st[x]]

Remove(st, ks) == [x \in (DOMAIN st) \ ks |-> st[x]]

\* get with the expiry test off by one (>= for >)
GetExpiredInclusive(entry, t) == t >= entry.expiresAt

\* get: Date.now() > entry.expiresAt
GetExpired(entry, t) == t > entry.expiresAt

\* the value get(key) returns at time t
GetValue(st, t, k) ==
  IF k \notin DOMAIN st THEN Null
  ELSE IF GetExpired(st[k], t) THEN Null
  ELSE st[k].data

\* a get with sliding expiry: reading a live entry renews its expiresAt
GetStoreSliding(st, t, k) ==
  IF k \in DOMAIN st /\ GetExpired(st[k], t) THEN Remove(st, {k})
  ELSE IF k \in DOMAIN st THEN [st EXCEPT ![k].expiresAt = t + defaultTTL]
  ELSE st

\* the map get(key) leaves behind at time t
GetStore(st, t, k) ==
  IF k \in DOMAIN st /\ GetExpired(st[k], t) THEN Remove(st, {k}) ELSE st

\* set: (ttl || this.defaultTTL); 0 is falsy, like an omitted argument
TTLOrDefault(ttl) == IF ttl = <<>> THEN defaultTTL ELSE IF ttl[1] = 0 THEN defaultTTL ELSE ttl[1]

\* set that stores the ttl as the expiry, without adding it to the clock
SetStoreNoClock(st, t, t2, k, v, ttl) ==
  Put(st, k, [data |-> v, timestamp |-> t2, expiresAt |-> TTLOrDefault(ttl)])

\* set: expiresAt is computed from the first Date.now() (t), timestamp is
\* the second Date.now() (t2 >= t)
SetStore(st, t, t2, k, v, ttl) ==
  Put(st, k, [data |-> v, timestamp |-> t2, expiresAt |-> t + TTLOrDefault(ttl)])

\* cleanup with the expiry test off by one (>= for >)
CleanupExpiredInclusive(entry, t) == t >= entry.expiresAt

\* cleanup: now > entry.expiresAt
CleanupExpired(entry, t) == t > entry.expiresAt

CleanupStore(st, t) == Remove(st, {k \in DOMAIN st : CleanupExpired(st[k], t)})

\* setInterval(..., 5 * 60 * 1000)
cleanupInterval == 5 * 60 * 1000

\* an interval callback that sweeps nothing
TimerCallbackNoop(st, t) == st

\* the interval callback: memoryCache.cleanup()
TimerCallback(st, t) == CleanupStore(st, t)

\* stats(): { size, keys }
Stats(st) == [size |-> Cardinality(DOMAIN st), keys |-> DOMAIN st]

(* --------------------------- createCacheKey --------------------------- *)

\* a part of a key: a string (its characters) or a number
Str(text) == [kind |-> "string", text |-> text, n |-> 0]

Num(n) == [kind |-> "number", text |-> <<>>, n |-> n]

Digit == <<"0", "1", "2", "3", "4", "5", "6", "7", "8", "9">>

\* String(n) of a non-negative integer
RECURSIVE NumberToString(_)
NumberToString(n) ==
  IF n < 10 THEN <<Digit[n + 1]>> ELSE NumberToString(n \div 10) \o <<Digit[(n % 10) + 1]>>

\* what join makes of one element
PartText(p) == IF p.kind = "number" THEN NumberToString(p.n) ELSE p.text

\* Array.prototype.join on the texts of the elements
RECURSIVE Join(_, _)
Join(texts, sep) ==
  IF Len(texts) = 0 THEN <<>>
  ELSE IF Len(texts) = 1 THEN texts[1]
  ELSE texts[1] \o sep \o Join(Tail(texts), sep)

\* a key builder that puts no delimiter between the parts
createCacheKeyConcat(parts) == Join([i \in 1..Len(parts) |-> PartText(parts[i])], <<>>)

\* createCacheKey(...parts): parts.join(':')
createCacheKey(parts) == Join([i \in 1..Len(parts) |-> PartText(parts[i])], <<":">>)

\* application/x-www-form-urlencoded: a byte outside the unreserved set is
\* percent-encoded
EncodeChar(c) ==
  IF c = ":" THEN <<"%", "3", "A">>
  ELSE IF c = "%" THEN <<"%", "2", "5">>
  ELSE IF c = "=" THEN <<"%", "3", "D">>
  ELSE IF c = "&" THEN <<"%", "2", "6">>
  ELSE <<c>>

RECURSIVE Encode(_)
Encode(text) == IF text = <<>> THEN <<>> ELSE EncodeChar(Head(text)) \o Encode(Tail(text))

\* req.nextUrl.searchParams.toString(): name=value pairs joined by &
SearchParamsToString(params) ==
  Join([i \in 1..Len(params) |-> Encode(params[i].name) \o <<"=">> \o Encode(params[i].value)],
       <<"&">>)

\* withCache: createCacheKey(req.nextUrl.pathname, req.nextUrl.searchParams.toString())
RequestKey(url) == createCacheKey(<<Str(url.pathname), Str(SearchParamsToString(url.params))>>)

(* --------------------------- products page ---------------------------- *)
(* Money is a whole number of the smallest unit and marginPercent is held  *)
(* in tenths of a percent (733 is 73.3), so the arithmetic is exact.        *)

\* prisma.orderItem.findMany({ where: { productId: { in: productIds } } })
RECURSIVE FindOrderItems(_, _)
FindOrderItems(table, productIds) ==
  IF table = <<>> THEN <<>>
  ELSE IF Head(table).productId \in productIds
       THEN <<Head(table)>> \o FindOrderItems(Tail(table), productIds)
       ELSE FindOrderItems(Tail(table), productIds)

\* a lookup that falls back on the totals of another product
MetricsGetOrAny(m, id) ==
  IF id \in DOMAIN m THEN m[id]
  ELSE IF DOMAIN m # {} THEN m[CHOOSE x \in DOMAIN m : TRUE]
  ELSE [quantity |-> 0, revenue |-> 0]

\* metricsMap.get(id) || { quantity: 0, revenue: 0 }
MetricsGet(m, id) == IF id \in DOMAIN m THEN m[id] ELSE [quantity |-> 0, revenue |-> 0]

\* an aggregation that keeps the last line item of a product only
RECURSIVE MetricsMapLastOnly(_, _)
MetricsMapLastOnly(orderItems, m) ==
  IF orderItems = <<>> THEN m
  ELSE LET oi == Head(orderItems)
           cur == [quantity |-> oi.quantity, revenue |-> oi.quantity * oi.price]
       IN MetricsMapLastOnly(Tail(orderItems),
                             [x \in (DOMAIN m) \cup {oi.productId} |-> IF x = oi.productId THEN cur ELSE m[x]])

\* the loop over orderItems that fills metricsMap
RECURSIVE MetricsMap(_, _)
MetricsMap(orderItems, m) ==
  IF orderItems = <<>> THEN m
  ELSE LET oi == Head(orderItems)
           old == MetricsGet(m, oi.productId)
           cur == [quantity |-> old.quantity + oi.quantity,
                   revenue |-> old.revenue + oi.quantity * oi.price]
       IN MetricsMap(Tail(orderItems),
                     [x \in (DOMAIN m) \cup {oi.productId} |-> IF x = oi.productId THEN cur ELSE m[x]])

\* a rounding that drops the fraction (Math.floor)
MathFloor(n, d) == n \div d

\* Math.round of the quotient n / d, d > 0: the nearest integer, a tie
\* going to the larger one
MathRound(n, d) == (2 * n + d) \div (2 * d)

\* p.price > 0 ? Math.round(((profitPerUnit / p.price) * 100) * 10) / 10 : 0
MarginPercent(price, profitPerUnit) ==
  IF price > 0 THEN MathRound(profitPerUnit * 100 * 10, price) ELSE 0

\* products.map((p) => ({ ...p, totalSold, totalRevenue, profitPerUnit, marginPercent }))
ProductsWithMetrics(products, m) ==
  [i \in 1..Len(products) |->
     [id |-> products[i].id, price |-> products[i].price, cost |-> products[i].cost,
      category |-> products[i].category,
      totalSold |-> MetricsGet(m, products[i].id).quantity,
      totalRevenue |-> MetricsGet(m, products[i].id).revenue,
      profitPerUnit |-> products[i].price - products[i].cost,
      marginPercent |-> MarginPercent(products[i].price, products[i].price - products[i].cost)]]

\* the comparator of the sort: (a, b) => b.totalSold - a.totalSold
CompareSold(a, b) == b.totalSold - a.totalSold

\* an insertion that puts x in front of the elements it compares equal to
RECURSIVE InsertBeforeEqual(_, _)
InsertBeforeEqual(x, sorted) ==
  IF sorted = <<>> THEN <<x>>
  ELSE IF CompareSold(Head(sorted), x) < 0 THEN <<Head(sorted)>> \o InsertBeforeEqual(x, Tail(sorted))
  ELSE <<x>> \o sorted

\* x goes behind every element that the comparator does not put after it
RECURSIVE Insert(_, _)
Insert(x, sorted) ==
  IF sorted = <<>> THEN <<x>>
  ELSE IF CompareSold(Head(sorted), x) <= 0 THEN <<Head(sorted)>> \o Insert(x, Tail(sorted))
  ELSE <<x>> \o sorted

\* Array.prototype.sort with the comparator: a stable sort
RECURSIVE SortBySold(_, _)
SortBySold(list, sorted) ==
  IF list = <<>> THEN sorted ELSE SortBySold(Tail(list), Insert(Head(list), sorted))

\* Array.prototype.slice(start, end)
Slice(list, start, end) ==
  LET from == IF start < 0 THEN (IF Len(list) + start < 0 THEN 0 ELSE Len(list) + start)
              ELSE IF start > Len(list) THEN Len(list) ELSE start
      to == IF end > Len(list) THEN Len(list) ELSE end
  IN SubSeq(list, from + 1, to)

\* .map((p) => p.id)
Ids(list) == [i \in 1..Len(list) |-> list[i].id]

\* the number of top sellers and of slow movers: slice(0, 3), slice(-3)
TopN == 3

\* a rollup that keeps the last product of a category only
RECURSIVE CategoryMapLastOnly(_, _)
CategoryMapLastOnly(list, m) ==
  IF list = <<>> THEN m
  ELSE LET q == Head(list)
           cur == [count |-> 1, revenue |-> q.totalRevenue]
       IN CategoryMapLastOnly(Tail(list),
                              [x \in (DOMAIN m) \cup {q.category} |-> IF x = q.category THEN cur ELSE m[x]])

\* the loop over productsWithMetrics that fills categoryMap
RECURSIVE CategoryMap(_, _)
CategoryMap(list, m) ==
  IF list = <<>> THEN m
  ELSE LET q == Head(list)
           old == IF q.category \in DOMAIN m THEN m[q.category] ELSE [count |-> 0, revenue |-> 0]
           cur == [count |-> old.count + 1, revenue |-> old.revenue + q.totalRevenue]
       IN CategoryMap(Tail(list),
                      [x \in (DOMAIN m) \cup {q.category} |-> IF x = q.category THEN cur ELSE m[x]])

\* a total that adds each distinct rollup revenue once
ReduceRevenueDistinct(m, acc) ==
  LET values == {m[c].revenue : c \in DOMAIN m}
      Sum[vs \in SUBSET values] == IF vs = {} THEN 0 ELSE LET v == CHOOSE x \in vs : TRUE IN v + Sum[vs \ {v}]
  IN acc + Sum[values]

\* Array.from(categoryMap.values()).reduce((s, v) => s + v.revenue, 0)
RECURSIVE ReduceRevenue(_, _)
ReduceRevenue(m, acc) ==
  IF DOMAIN m = {} THEN acc
  ELSE LET c == CHOOSE x \in DOMAIN m : TRUE
       IN ReduceRevenue([x \in (DOMAIN m) \ {c} |-> m[x]], acc + m[c].revenue)

\* ProductsPage(): the queries and everything computed before rendering
ProductsPage ==
  /\ agg.op = "request"
  /\ LET products == agg.products
         productIds == {products[i].id : i \in 1..Len(products)}
         orderItems == FindOrderItems(agg.table, productIds)
         metricsMap == MetricsMap(orderItems, <<>>)
         productsWithMetrics == ProductsWithMetrics(products, metricsMap)
         sortedBySold == SortBySold(productsWithMetrics, <<>>)
         categoryMap == CategoryMap(productsWithMetrics, <<>>)
     IN agg' = [op |-> "rendered", products |-> products, table |-> agg.table,
                orderItems |-> orderItems,
                productsWithMetrics |-> productsWithMetrics,
                sortedBySold |-> sortedBySold,
                topSellers |-> Ids(Slice(sortedBySold, 0, TopN)),
                slowMovers |-> Ids(Slice(sortedBySold, 0 - TopN, Len(sortedBySold))),
                categoryMap |-> categoryMap,
                revenueShown |-> ReduceRevenue(categoryMap, 0)]
  /\ UNCHANGED <<store, now, last, tasks, origin, hist, timer, built, db, reqs, pwa, modal, csv>>

(* ----------------------------- api-cache ------------------------------ *)

\* a prefix test in place of includes (startsWith)
IncludesAtStart(key, pattern) ==
  Len(pattern) <= Len(key) /\ SubSeq(key, 1, Len(pattern)) = pattern

\* a substring test in which the empty pattern matches no key
IncludesNonEmpty(key, pattern) ==
  pattern # <<>> /\ \E i \in 0..(Len(key) - Len(pattern)) : SubSeq(key, i + 1, i + Len(pattern)) = pattern

\* String.prototype.includes on character sequences
Includes(key, pattern) ==
  \E i \in 0..(Len(key) - Len(pattern)) : SubSeq(key, i + 1, i + Len(pattern)) = pattern

\* invalidateCache that counts the matching keys and deletes none of them
InvalidateLoopCountOnly(keys, st, count, pattern) ==
  [store |-> st, count |-> count + Cardinality({k \in keys : Includes(k, pattern)})]

\* invalidateCache: the loop over stats.keys; every key that includes the
\* pattern is deleted and counted
RECURSIVE InvalidateLoop(_, _, _, _)
InvalidateLoop(keys, st, count, pattern) ==
  IF keys = {} THEN [store |-> st, count |-> count]
  ELSE LET key == CHOOSE x \in keys : TRUE
       IN IF Includes(key, pattern)
          THEN InvalidateLoop(keys \ {key}, Remove(st, {key}), count + 1, pattern)
          ELSE InvalidateLoop(keys \ {key}, st, count, pattern)

(* ------------------------------- state -------------------------------- *)

\* the most recent synchronous call: its name, its key (or pattern), value
\* and ttl arguments, what it returned (v, n or keys) and how many entries
\* it removed from the map (st2 is the map it left behind)
Last(op, k, v, n, ks, ttl, st2) ==
  [op |-> op, key |-> k, v |-> v, n |-> n, keys |-> ks, ttl |-> ttl,
   removed |-> Cardinality((DOMAIN store) \ (DOMAIN st2))]

\* a request slot that holds no call
IdleTask ==
  [pc |-> "idle", op |-> "none", method |-> "none", key |-> <<>>, ttl |-> <<>>,
   data |-> Null, ok |-> FALSE, calls |-> 0, pre |-> FALSE, out |-> "none", xcache |-> "none"]

\* the state outside the cache map and its callers
rest == <<timer, built, agg, db, reqs, pwa, modal, csv>>

\* the products page has not been rendered
NoPage ==
  [op |-> "none", products |-> <<>>, table |-> <<>>, orderItems |-> <<>>,
   productsWithMetrics |-> <<>>, sortedBySold |-> <<>>, topSellers |-> <<>>,
   slowMovers |-> <<>>, categoryMap |-> <<>>, revenueShown |-> 0]

\* no key has been built
NoBuild == [op |-> "none", a |-> <<>>, b |-> <<>>, ka |-> <<>>, kb |-> <<>>]

NoOrigin == [by |-> "none", v |-> Null, ttl |-> <<>>]

\* history of the entry now stored under each key: which call stored it,
\* with which value and ttl arguments
OriginAfter(st2, written, o) ==
  [k \in Keys |-> IF k \notin DOMAIN st2 THEN NoOrigin ELSE IF k \in written THEN o ELSE origin[k]]

Origin(by, v, ttl) == [by |-> by, v |-> v, ttl |-> ttl]

\* history of each key with respect to invalidation: "inval" from an
\* invalidation that covered the key until the next set on it, "stale" while
\* the stored entry was written by a population that was already in flight
\* when an invalidation covered the key
HistAfter(st2, written, mark) ==
  [k \in Keys |-> IF k \in written THEN mark
                  ELSE IF k \notin DOMAIN st2 /\ hist[k] = "stale" THEN "none"
                  ELSE hist[k]]

\* the request slots of the customers API
Reqs == {"r1", "r2"}

\* a request slot that holds no request
IdleReq ==
  [pc |-> "idle", op |-> "none", user |-> "none", batch |-> <<>>, i |-> 0,
   success |-> 0, failed |-> 0, errors |-> <<>>, status |-> 0, count |-> 0]

\* the install prompt before the page is loaded: nothing in localStorage
NoPwa ==
  [mounted |-> FALSE, deferredPrompt |-> FALSE, showPrompt |-> FALSE, timers |-> {},
   dismissed |-> <<>>, clock |-> 0, events |-> 0, choosing |-> FALSE]

\* the import modal as useState initialises it
\* no file
NoFile == [name |-> <<>>, text |-> <<>>]

\* the import modal as useState initialises it, open, with no FileReader at
\* work, no call of importFn and no toast
NoModal ==
  [isOpen |-> TRUE, file |-> NoFile, csvData |-> <<>>, errors |-> 0, isValid |-> FALSE,
   importing |-> FALSE, reading |-> {}, pc |-> "idle", sent |-> <<>>, sentFile |-> NoFile,
   toast |-> "none"]

\* no line has been parsed
NoCsv == [op |-> "none", text |-> <<>>, from |-> <<>>, fields |-> <<>>, empty |-> FALSE, rows |-> <<>>]

\* the application outside the cache: an empty customers table, no request
InitApp ==
  /\ db = {}
  /\ reqs = [r \in Reqs |-> IdleReq]
  /\ pwa = NoPwa
  /\ modal = NoModal
  /\ csv = NoCsv

InitCache ==
  /\ store = EmptyStore
  /\ now = 0
  /\ last = [op |-> "none", key |-> <<>>, v |-> "void", n |-> 0, keys |-> {}, ttl |-> <<>>, removed |-> 0]
  /\ tasks = [p \in Tasks |-> IdleTask]
  /\ origin = [k \in Keys |-> NoOrigin]
  /\ hist = [k \in Keys |-> "none"]
  /\ timer = cleanupInterval

Init ==
  /\ InitCache
  /\ built = NoBuild
  /\ agg = NoPage
  /\ InitApp

(* ------------------------- synchronous calls -------------------------- *)

\* the clock may go from t to t2
ClockMay(t, t2) == t2 <= MaxNow \/ (t > MaxNow /\ t2 <= defaultTTL + MaxNow)

\* time passes between two calls; the interval callback runs when it is due
Tick(d) ==
  /\ ClockMay(now, now + d)
  /\ now + d <= timer
  /\ now' = now + d
  /\ UNCHANGED <<store, last, tasks, origin, hist, rest>>

\* memoryCache.get(key)
Get(k) ==
  /\ store' = GetStore(store, now, k)
  /\ last' = Last("get", k, GetValue(store, now, k), 0, {}, <<>>, store')
  /\ origin' = OriginAfter(store', {}, NoOrigin)
  /\ hist' = HistAfter(store', {}, "none")
  /\ UNCHANGED <<now, tasks, rest>>

\* memoryCache.set(key, data, ttl); the clock may advance by d between the
\* two Date.now() reads
Set(k, v, ttl, d) ==
  /\ ClockMay(now, now + d)
  /\ store' = SetStore(store, now, now + d, k, v, ttl)
  /\ now' = now + d
  /\ last' = Last("set", k, v, 0, {}, ttl, store')
  /\ origin' = OriginAfter(store', {k}, Origin("set", v, ttl))
  /\ hist' = HistAfter(store', {k}, "none")
  /\ UNCHANGED <<tasks, rest>>

\* memoryCache.has(key): this.get(key) !== null
Has(k) ==
  /\ store' = GetStore(store, now, k)
  /\ last' = Last("has", k, IF GetValue(store, now, k) # Null THEN "true" ELSE "false", 0, {}, <<>>, store')
  /\ origin' = OriginAfter(store', {}, NoOrigin)
  /\ hist' = HistAfter(store', {}, "none")
  /\ UNCHANGED <<now, tasks, rest>>

\* memoryCache.delete(key)
Delete(k) ==
  /\ store' = Remove(store, {k})
  /\ last' = Last("delete", k, "void", 0, {}, <<>>, store')
  /\ origin' = OriginAfter(store', {}, NoOrigin)
  /\ hist' = HistAfter(store', {}, "none")
  /\ UNCHANGED <<now, tasks, rest>>

\* memoryCache.clear()
Clear ==
  /\ store' = EmptyStore
  /\ last' = Last("clear", <<>>, "void", 0, {}, <<>>, store')
  /\ origin' = OriginAfter(store', {}, NoOrigin)
  /\ hist' = HistAfter(store', {}, "none")
  /\ UNCHANGED <<now, tasks, rest>>

\* memoryCache.cleanup(), called directly or by the interval timer
Cleanup ==
  /\ store' = CleanupStore(store, now)
  /\ last' = Last("cleanup", <<>>, "void", 0, {}, <<>>, store')
  /\ origin' = OriginAfter(store', {}, NoOrigin)
  /\ hist' = HistAfter(store', {}, "none")
  /\ UNCHANGED <<now, tasks, rest>>

\* time passes until the interval timer is due
AdvanceToTimer ==
  /\ now < timer
  /\ timer <= MaxPeriods * cleanupInterval
  /\ now' = timer
  /\ UNCHANGED <<store, last, tasks, origin, hist, timer, built, agg, db, reqs, pwa, modal, csv>>

\* the interval timer fires: the callback runs and the timer stays armed
\* for the next period
TimerFire ==
  /\ now = timer
  /\ store' = TimerCallback(store, now)
  /\ last' = Last("timer", <<>>, "void", 0, {}, <<>>, store')
  /\ origin' = OriginAfter(store', {}, NoOrigin)
  /\ hist' = HistAfter(store', {}, "none")
  /\ timer' = timer + cleanupInterval
  /\ UNCHANGED <<now, tasks, built, agg, db, reqs, pwa, modal, csv>>

\* a stats() that sweeps the expired entries before it counts
StatsCallSweeping ==
  /\ store' = CleanupStore(store, now)
  /\ last' = Last("stats", <<>>, "void", Stats(store').size, Stats(store').keys, <<>>, store')
  /\ origin' = OriginAfter(store', {}, NoOrigin)
  /\ hist' = HistAfter(store', {}, "none")
  /\ UNCHANGED <<now, tasks, rest>>

\* memoryCache.stats()
StatsCall ==
  /\ last' = Last("stats", <<>>, "void", Stats(store).size, Stats(store).keys, <<>>, store)
  /\ UNCHANGED <<store, now, tasks, origin, hist, rest>>

(* --------------------------- invalidation ----------------------------- *)

\* a population (a call that will still store its result) is in flight
InFlight(t) == t.pc \in {"fetching", "handler", "cloneJson"}

\* invalidation covering the keys `covered`: populations in flight on them
\* started before it
Populating(k) == \E p \in Tasks : InFlight(tasks[p]) /\ tasks[p].key = k

MarkTasks(covered) ==
  [p \in Tasks |-> IF InFlight(tasks[p]) /\ tasks[p].key \in covered
                   THEN [tasks[p] EXCEPT !.pre = TRUE] ELSE tasks[p]]

\* a covered key that held an entry or had a population in flight is
\* marked invalidated
MarkHist(covered) ==
  [k \in Keys |-> IF k \in covered /\ (k \in DOMAIN store \/ Populating(k)) THEN "inval"
                  ELSE hist[k]]

\* invalidateCache(pattern)
InvalidateCache(pattern) ==
  LET r == InvalidateLoop(Stats(store).keys, store, 0, pattern)
      covered == {k \in Keys : Includes(k, pattern)}
  IN /\ store' = r.store
     /\ last' = Last("invalidateCache", pattern, "void", r.count, {}, <<>>, store')
     /\ origin' = OriginAfter(store', {}, NoOrigin)
     /\ hist' = MarkHist(covered)
     /\ tasks' = MarkTasks(covered)
     /\ UNCHANGED <<now, rest>>

\* invalidateAllCache(): memoryCache.clear()
InvalidateAllCache ==
  /\ store' = EmptyStore
  /\ last' = Last("invalidateAllCache", <<>>, "void", 0, {}, <<>>, store')
  /\ origin' = OriginAfter(store', {}, NoOrigin)
  /\ hist' = MarkHist(Keys)
  /\ tasks' = MarkTasks(Keys)
  /\ UNCHANGED <<now, rest>>

(* ------------------------ getOrSet (asynchronous) --------------------- *)

\* the call has returned: what it returned (a value, a response with its
\* status, body and X-Cache header) or that it threw
Done(t, out, v, ok, x) ==
  [t EXCEPT !.pc = "done", !.out = out, !.data = v, !.ok = ok, !.xcache = x,
            !.ttl = <<>>, !.pre = FALSE]

\* getOrSet up to its await: this.get(key); on a value other than null return
\* it, otherwise call fetcher() and suspend
GetOrSetCall(p, k, ttl) ==
  /\ tasks[p].pc = "idle"
  /\ LET cached == GetValue(store, now, k)
         t == [IdleTask EXCEPT !.op = "getOrSet", !.key = k, !.ttl = ttl]
     IN /\ store' = GetStore(store, now, k)
        /\ tasks' = [tasks EXCEPT ![p] =
                       IF cached # Null THEN Done(t, "value", cached, TRUE, "none")
                       ELSE [t EXCEPT !.pc = "fetching", !.calls = 1]]
  /\ origin' = OriginAfter(store', {}, NoOrigin)
  /\ hist' = HistAfter(store', {}, "none")
  /\ UNCHANGED <<now, last, rest>>

\* getOrSet that stores its result only when the key holds no entry yet
FetcherResolveKeepFirst(p, v, d) ==
  /\ tasks[p].pc = "fetching"
  /\ ClockMay(now, now + d)
  /\ store' = IF tasks[p].key \in DOMAIN store THEN store
              ELSE SetStore(store, now, now + d, tasks[p].key, v, tasks[p].ttl)
  /\ now' = now + d
  /\ tasks' = [tasks EXCEPT ![p] = Done(tasks[p], "value", v, TRUE, "none")]
  /\ origin' = OriginAfter(store', {}, NoOrigin)
  /\ hist' = HistAfter(store', {}, "none")
  /\ UNCHANGED <<last, rest>>

\* the fetcher's promise resolves with v: this.set(key, data, ttl); return data
FetcherResolve(p, v, d) ==
  /\ tasks[p].pc = "fetching"
  /\ ClockMay(now, now + d)
  /\ store' = SetStore(store, now, now + d, tasks[p].key, v, tasks[p].ttl)
  /\ now' = now + d
  /\ tasks' = [tasks EXCEPT ![p] = Done(tasks[p], "value", v, TRUE, "none")]
  /\ origin' = OriginAfter(store', {tasks[p].key}, Origin("getOrSet", v, tasks[p].ttl))
  /\ hist' = HistAfter(store', {tasks[p].key}, IF tasks[p].pre THEN "stale" ELSE "none")
  /\ UNCHANGED <<last, rest>>

\* getOrSet that caches null when the fetcher fails (negative caching)
FetcherRejectCachesNull(p) ==
  /\ tasks[p].pc = "fetching"
  /\ store' = SetStore(store, now, now, tasks[p].key, Null, tasks[p].ttl)
  /\ tasks' = [tasks EXCEPT ![p] = Done(tasks[p], "error", Null, FALSE, "none")]
  /\ origin' = OriginAfter(store', {tasks[p].key}, Origin("getOrSet", Null, tasks[p].ttl))
  /\ hist' = HistAfter(store', {tasks[p].key}, "none")
  /\ UNCHANGED <<now, last, rest>>

\* the fetcher's promise rejects: the await throws, getOrSet rejects
FetcherReject(p) ==
  /\ tasks[p].pc = "fetching"
  /\ tasks' = [tasks EXCEPT ![p] = Done(tasks[p], "error", Null, FALSE, "none")]
  /\ UNCHANGED <<store, now, last, origin, hist, rest>>

\* the caller takes the result; the slot is free for the next call
TaskReturn(p) ==
  /\ tasks[p].pc = "done"
  /\ tasks' = [tasks EXCEPT ![p] = IdleTask]
  /\ UNCHANGED <<store, now, last, origin, hist, rest>>

(* ------------------------ withCache (asynchronous) -------------------- *)

\* JavaScript truthiness of a cached value: if (cached)
Truthy(v) == v \notin {Null, Zero}

\* the wrapped handler up to its first await.  The request is its method
\* and the cache key built from its URL (or options.key)
WithCacheCall(p, method, k, ttl) ==
  /\ tasks[p].pc = "idle"
  /\ LET t == [IdleTask EXCEPT !.op = "withCache", !.method = method, !.key = k, !.ttl = ttl]
         cached == GetValue(store, now, k)
     IN IF method # "GET"
        THEN /\ tasks' = [tasks EXCEPT ![p] = [t EXCEPT !.pc = "passthru", !.calls = 1]]
             /\ UNCHANGED <<store, origin, hist>>
        ELSE /\ store' = GetStore(store, now, k)
             /\ tasks' = [tasks EXCEPT ![p] =
                            IF Truthy(cached) THEN Done(t, "response", cached, TRUE, "HIT")
                            ELSE [t EXCEPT !.pc = "handler", !.calls = 1]]
             /\ origin' = OriginAfter(store', {}, NoOrigin)
             /\ hist' = HistAfter(store', {}, "none")
  /\ UNCHANGED <<now, last, rest>>

\* a withCache that caches the body of every response, ok or not
HandlerResolveCachesAll(p, ok, body) ==
  /\ tasks[p].pc \in {"passthru", "handler"}
  /\ tasks' = [tasks EXCEPT ![p] =
                 IF tasks[p].pc = "passthru" THEN Done(tasks[p], "response", body, ok, "none")
                 ELSE [tasks[p] EXCEPT !.pc = "cloneJson", !.data = body, !.ok = ok]]
  /\ UNCHANGED <<store, now, last, origin, hist, rest>>

\* the handler's promise resolves with a response (ok or not, JSON body)
HandlerResolve(p, ok, body) ==
  /\ tasks[p].pc \in {"passthru", "handler"}
  /\ tasks' = [tasks EXCEPT ![p] =
                 IF tasks[p].pc = "passthru" THEN Done(tasks[p], "response", body, ok, "none")
                 ELSE [tasks[p] EXCEPT !.pc = IF ok THEN "cloneJson" ELSE "respJson",
                                       !.data = body, !.ok = ok]]
  /\ UNCHANGED <<store, now, last, origin, hist, rest>>

\* the handler's promise rejects
HandlerReject(p) ==
  /\ tasks[p].pc \in {"passthru", "handler"}
  /\ tasks' = [tasks EXCEPT ![p] = Done(tasks[p], "error", Null, FALSE, "none")]
  /\ UNCHANGED <<store, now, last, origin, hist, rest>>

\* response.clone().json() resolves: memoryCache.set(cacheKey, data, options.ttl)
CloneJsonResolve(p, d) ==
  /\ tasks[p].pc = "cloneJson"
  /\ ClockMay(now, now + d)
  /\ store' = SetStore(store, now, now + d, tasks[p].key, tasks[p].data, tasks[p].ttl)
  /\ now' = now + d
  /\ tasks' = [tasks EXCEPT ![p].pc = "respJson"]
  /\ origin' = OriginAfter(store', {tasks[p].key}, Origin("withCache", tasks[p].data, tasks[p].ttl))
  /\ hist' = HistAfter(store', {tasks[p].key}, IF tasks[p].pre THEN "stale" ELSE "none")
  /\ UNCHANGED <<last, rest>>

\* response.json() resolves: the response goes out with the handler's
\* status and body and X-Cache: MISS
RespJsonResolve(p) ==
  /\ tasks[p].pc = "respJson"
  /\ tasks' = [tasks EXCEPT ![p] = Done(tasks[p], "response", tasks[p].data, tasks[p].ok, "MISS")]
  /\ UNCHANGED <<store, now, last, origin, hist, rest>>

(* --------------------------- specifications --------------------------- *)

\* the clock advances by a millisecond
Ticks == {1}

\* the clock may advance by a millisecond between the two Date.now() of set
SetDelays == {0, 1}

NoDelay == {0}

StoreValues == {Null, "a", "b"}

StoreKeys == {KeyCA, KeyPA}

\* the cache store under synchronous calls only
Next ==
  \/ \E d \in Ticks : Tick(d)
  \/ \E k \in StoreKeys : Get(k)
  \/ \E k \in StoreKeys, v \in StoreValues, ttl \in TTLArgs, d \in NoDelay : Set(k, v, ttl, d)
  \/ \E k \in StoreKeys : Has(k)
  \/ \E k \in StoreKeys : Delete(k)
  \/ Clear
  \/ Cleanup
  \/ StatsCall

Spec == Init /\ [][Next]_vars

(* pattern invalidation over the three keys *)

PatternValues == {"a"}

PatternTTLs == {<<>>, <<1>>}

NextPattern ==
  \/ \E d \in Ticks : Tick(d)
  \/ \E k \in Keys, v \in PatternValues, ttl \in PatternTTLs, d \in NoDelay : Set(k, v, ttl, d)
  \/ StatsCall
  \/ \E pattern \in Patterns : InvalidateCache(pattern)
  \/ InvalidateAllCache

SpecPattern == Init /\ [][NextPattern]_vars

(* getOrSet calls that interleave with each other and with invalidation;
   the clock may advance by a millisecond inside set *)

TaskKeys == {KeyCA}

TaskTTLs == {<<1>>, <<2>>}

TaskPatterns == {<<"c">>, <<"p">>}

NextTasks ==
  \/ \E d \in Ticks : Tick(d)
  \/ \E p \in Tasks, k \in TaskKeys, ttl \in TaskTTLs : GetOrSetCall(p, k, ttl)
  \/ \E p \in Tasks, v \in StoreValues, d \in SetDelays : FetcherResolve(p, v, d)
  \/ \E p \in Tasks : FetcherReject(p)
  \/ \E p \in Tasks : TaskReturn(p)
  \/ \E pattern \in TaskPatterns : InvalidateCache(pattern)
  \/ InvalidateAllCache

SpecTasks == Init /\ [][NextTasks]_vars

(* requests through withCache and getOrSet calls that interleave with
   invalidation and with direct reads *)

ApiValues == {"a"}

ApiTTLs == {<<1>>}

Methods == {"GET", "POST"}

NextApi ==
  \/ \E d \in Ticks : Tick(d)
  \/ \E p \in Tasks, m \in Methods, k \in TaskKeys, ttl \in ApiTTLs : WithCacheCall(p, m, k, ttl)
  \/ \E p \in Tasks, ok \in BOOLEAN, body \in ApiValues : HandlerResolve(p, ok, body)
  \/ \E p \in Tasks : HandlerReject(p)
  \/ \E p \in Tasks, d \in NoDelay : CloneJsonResolve(p, d)
  \/ \E p \in Tasks : RespJsonResolve(p)
  \/ \E p \in Tasks, k \in TaskKeys, ttl \in ApiTTLs : GetOrSetCall(p, k, ttl)
  \/ \E p \in Tasks, v \in ApiValues, d \in NoDelay : FetcherResolve(p, v, d)
  \/ \E p \in Tasks : FetcherReject(p)
  \/ \E p \in Tasks : TaskReturn(p)
  \/ \E k \in TaskKeys : Get(k)
  \/ \E pattern \in TaskPatterns : InvalidateCache(pattern)
  \/ InvalidateAllCache

SpecApi == Init /\ [][NextApi]_vars

(* the store under the interval timer of the server process: entries are
   set, possibly read, and time passes from one firing to the next *)

TimerValues == {"a"}

TimerTTLs == {<<>>, <<-1>>, <<1>>}

NextTimer ==
  \/ \E d \in Ticks : Tick(d)
  \/ \E k \in StoreKeys, v \in TimerValues, ttl \in TimerTTLs, d \in NoDelay : Set(k, v, ttl, d)
  \/ \E k \in StoreKeys : Get(k)
  \/ AdvanceToTimer
  \/ TimerFire

\* time passes and a due timer fires
SpecTimer == Init /\ [][NextTimer]_vars /\ WF_vars(AdvanceToTimer) /\ WF_vars(TimerFire)

(* cache keys built for two parts lists, and for two request URLs *)

KeyTexts == {<<>>, <<"a">>, <<":">>, <<"1">>, <<"a", "a">>, <<"a", ":">>, <<":", "a">>, <<":", ":">>}

KeyParts == {Str(t) : t \in KeyTexts} \cup {Num(1)}

PartsLists == {<<>>} \cup {<<x>> : x \in KeyParts} \cup {<<x, y>> : x \in KeyParts, y \in KeyParts}

Pathnames == {<<"/">>, <<"/", "a">>, <<"/", ":">>, <<"/", "a", ":">>, <<"/", ":", "a">>}

ParamTexts == {<<>>, <<"a">>, <<":">>, <<"%">>, <<"a", ":">>}

SearchParams == {<<>>} \cup {<<[name |-> <<"q">>, value |-> v]>> : v \in ParamTexts}

Urls == [pathname : Pathnames, params : SearchParams]

InitKeys ==
  /\ InitCache
  /\ agg = NoPage
  /\ InitApp
  /\ built \in [op : {"parts"}, a : PartsLists, b : PartsLists, ka : {<<>>}, kb : {<<>>}]
               \cup [op : {"urls"}, a : Urls, b : Urls, ka : {<<>>}, kb : {<<>>}]

\* createCacheKey is called on the two parts lists
CreateCacheKeyCalls ==
  /\ built.op = "parts"
  /\ built' = [built EXCEPT !.op = "createCacheKey",
                             !.ka = createCacheKey(built.a), !.kb = createCacheKey(built.b)]
  /\ UNCHANGED <<store, now, last, tasks, origin, hist, timer, agg, db, reqs, pwa, modal, csv>>

\* withCache builds the keys of the two requests
RequestKeyCalls ==
  /\ built.op = "urls"
  /\ built' = [built EXCEPT !.op = "withCache",
                             !.ka = RequestKey(built.a), !.kb = RequestKey(built.b)]
  /\ UNCHANGED <<store, now, last, tasks, origin, hist, timer, agg, db, reqs, pwa, modal, csv>>

NextKeys == CreateCacheKeyCalls \/ RequestKeyCalls

SpecKeys == InitKeys /\ [][NextKeys]_vars

(* GET requests of two tenants through withCache.  The tenant is known
   from the session of the request and the handler answers with the data
   of that tenant; slot t1 carries the requests of tenant u1 and slot t2
   those of tenant u2 *)

Tenants == {"u1", "u2"}

TenantOf(p) == IF p = "t1" THEN "u1" ELSE "u2"

\* the identifier of a tenant, as characters
TenantChars(u) == IF u = "u1" THEN <<"u", "1">> ELSE <<"u", "2">>

\* what a handler that filters by session.user.id answers
TenantData(u) == u

TenantUrls == {[pathname |-> <<"/", "a">>, params |-> <<>>],
               [pathname |-> <<"/", "a">>, params |-> <<[name |-> <<"q">>, value |-> <<"a">>]>>]}

NextTenants ==
  \/ \E d \in Ticks : Tick(d)
  \/ \E p \in Tasks, url \in TenantUrls, ttl \in ApiTTLs : WithCacheCall(p, "GET", RequestKey(url), ttl)
  \/ \E p \in Tasks, ok \in BOOLEAN : HandlerResolve(p, ok, TenantData(TenantOf(p)))
  \/ \E p \in Tasks : HandlerReject(p)
  \/ \E p \in Tasks, d \in NoDelay : CloneJsonResolve(p, d)
  \/ \E p \in Tasks : RespJsonResolve(p)
  \/ \E p \in Tasks : TaskReturn(p)

SpecTenants == Init /\ [][NextTenants]_vars

(* GET requests through withCache whose handlers answer with any JSON
   body, falsy bodies (0, false, "", null) included *)

HitValues == {"a", Zero, Null}

NextHit ==
  \/ \E d \in Ticks : Tick(d)
  \/ \E p \in Tasks, k \in TaskKeys, ttl \in ApiTTLs : WithCacheCall(p, "GET", k, ttl)
  \/ \E p \in Tasks, ok \in BOOLEAN, body \in HitValues : HandlerResolve(p, ok, body)
  \/ \E p \in Tasks : HandlerReject(p)
  \/ \E p \in Tasks, d \in NoDelay : CloneJsonResolve(p, d)
  \/ \E p \in Tasks : RespJsonResolve(p)
  \/ \E p \in Tasks : TaskReturn(p)

SpecHit == Init /\ [][NextHit]_vars

(* reads of all four kinds (get, has, getOrSet, withCache on GET) of entries
   that getOrSet and withCache have stored; the clock does not advance
   inside set *)

ReadTTLs == {<<1>>, <<2>>}

NextReads ==
  \/ \E d \in Ticks : Tick(d)
  \/ \E k \in TaskKeys : Get(k)
  \/ \E k \in TaskKeys : Has(k)
  \/ \E p \in Tasks, k \in TaskKeys, ttl \in ReadTTLs : GetOrSetCall(p, k, ttl)
  \/ \E p \in Tasks, v \in ApiValues, d \in NoDelay : FetcherResolve(p, v, d)
  \/ \E p \in Tasks : FetcherReject(p)
  \/ \E p \in Tasks, k \in TaskKeys, ttl \in ReadTTLs : WithCacheCall(p, "GET", k, ttl)
  \/ \E p \in Tasks, ok \in BOOLEAN, body \in ApiValues : HandlerResolve(p, ok, body)
  \/ \E p \in Tasks : HandlerReject(p)
  \/ \E p \in Tasks, d \in NoDelay : CloneJsonResolve(p, d)
  \/ \E p \in Tasks : RespJsonResolve(p)
  \/ \E p \in Tasks : TaskReturn(p)

SpecReads == Init /\ [][NextReads]_vars

(* the products page rendered over a product list and an order item
   table: lists of up to two products with any table of up to MaxItems
   rows, one product with any price and cost, and lists of up to
   MaxProducts products with any quantities sold *)

ProductA == [id |-> "A", price |-> 450, cost |-> 120, category |-> "hot"]

ProductBHot == [id |-> "B", price |-> 300, cost |-> 100, category |-> "hot"]

ProductBCold == [id |-> "B", price |-> 300, cost |-> 100, category |-> "cold"]

TotalsProducts ==
  {<<>>, <<ProductA>>, <<ProductBHot>>, <<ProductBCold>>, <<ProductA, ProductBHot>>,
   <<ProductA, ProductBCold>>, <<ProductBHot, ProductA>>, <<ProductBCold, ProductA>>}

\* order item rows: quantity and unit price
ItemSales == {<<2, 5>>, <<1, 5>>, <<0, 3>>}

ItemRows == {[productId |-> i, quantity |-> qp[1], price |-> qp[2]] : i \in {"A", "B", "C"}, qp \in ItemSales}

Tables == UNION {[1..n -> ItemRows] : n \in 0..MaxItems}

MarginPrices == {0 - 1, 0, 16, 450}

MarginCosts == {0, 15, 16, 17, 120, 500}

MarginProducts ==
  {<<[id |-> "A", price |-> price, cost |-> cost, category |-> "hot"]>> :
     price \in MarginPrices, cost \in MarginCosts}

ProductIdSeq == <<"P1", "P2", "P3", "P4", "P5", "P6", "P7", "P8">>

\* n products in the order of ProductIdSeq
RankedProducts(n) == [i \in 1..n |-> [id |-> ProductIdSeq[i], price |-> 3, cost |-> 1, category |-> "hot"]]

\* one order item per product, with the quantity sold
RankedTable(sold) == [i \in 1..Len(sold) |-> [productId |-> ProductIdSeq[i], quantity |-> sold[i], price |-> 3]]

SoldLists == UNION {[1..n -> 0..2] : n \in 0..MaxProducts}

PageRequest(products, table) == [NoPage EXCEPT !.op = "request", !.products = products, !.table = table]

InitProducts ==
  /\ InitCache
  /\ built = NoBuild
  /\ InitApp
  /\ agg \in {PageRequest(products, table) : products \in TotalsProducts, table \in Tables}
             \cup {PageRequest(products, <<>>) : products \in MarginProducts}
             \cup {PageRequest(RankedProducts(Len(sold)), RankedTable(sold)) : sold \in SoldLists}

NextProducts == ProductsPage

SpecProducts == InitProducts /\ [][NextProducts]_vars

(* --------------------------- customers API ---------------------------- *)

\* the cache, its callers and the products page
back == <<store, now, last, tasks, origin, hist, timer, built, agg>>

MaxBatch == 2

\* a request without a session
NoSession == "none"

Emails == {"e1", "e2"}

\* the elements a customers array can hold: objects with or without an
\* email and a name, and null
Customer(email, name) == [kind |-> "object", email |-> email, name |-> name]

NullItem == [kind |-> "null", email |-> "undefined", name |-> "undefined"]

Objects == {Customer("e1", "n"), Customer("e2", "n"), Customer("undefined", "n"), Customer("e2", "undefined")}

Items == Objects \cup {NullItem}

SeqsUpTo(S, n) == UNION {[1..m -> S] : m \in 0..n}

\* the arrays of the first request slot, the empty array included, and the
\* one-element arrays of the second slot, which interleaves with the first
Batches(r) == IF r = "r1" THEN SeqsUpTo(Items, MaxBatch) ELSE SeqsUpTo(Objects, 1)

\* the row prisma.customer.create stores; owner is the session user of the
\* request that created it, which the handler never reads
Row(customer, user) ==
  [email |-> customer.email, name |-> customer.name, owner |-> user,
   totalSpent |-> 0, visitCount |-> 0, loyaltyPoints |-> 0]

DbEmails == {c.email : c \in db}

\* POST: the body is read; an empty or missing customers array is answered
\* with 400, otherwise the loop starts at the first customer
POST(r, user, batch) ==
  /\ reqs[r].pc = "idle"
  /\ reqs' = [reqs EXCEPT ![r] =
                [IdleReq EXCEPT !.op = "import", !.user = user, !.batch = batch, !.i = 1,
                                !.pc = IF batch = <<>> THEN "done" ELSE "find",
                                !.status = IF batch = <<>> THEN 400 ELSE 0]]
  /\ UNCHANGED <<db, pwa, modal, csv, back>>

\* the loop goes on to the next customer, or the response is built
NextCustomer(q) ==
  IF q.i = Len(q.batch) THEN [q EXCEPT !.i = q.i + 1, !.pc = "done", !.status = 200]
  ELSE [q EXCEPT !.i = q.i + 1, !.pc = "find"]

\* the inner catch: failed++ and one message pushed
Failed(q, message) == [q EXCEPT !.failed = q.failed + 1, !.errors = Append(q.errors, message)]

\* prisma.customer.findUnique({where: {email}}) for the customer at i:
\* reading customer.email of null throws, and so does the template of the
\* inner catch (customer.name), which the outer catch answers with 500; a
\* missing email makes findUnique reject; an existing row is a failure
FindUnique(r) ==
  /\ reqs[r].pc = "find"
  /\ LET q == reqs[r]
         customer == q.batch[q.i]
     IN reqs' = [reqs EXCEPT ![r] =
                   IF customer.kind = "null" THEN [q EXCEPT !.failed = q.failed + 1, !.pc = "done", !.status = 500]
                   ELSE IF customer.email = "undefined" THEN NextCustomer(Failed(q, "threw"))
                   ELSE IF customer.email \in DbEmails THEN NextCustomer(Failed(q, "exists"))
                   ELSE [q EXCEPT !.pc = "create"]]
  /\ UNCHANGED <<db, pwa, modal, csv, back>>

\* prisma.customer.create: it rejects when the email has been taken since
\* findUnique (the unique index) or when the required name is missing;
\* otherwise the row is stored with zero statistics
Create(r) ==
  /\ reqs[r].pc = "create"
  /\ LET q == reqs[r]
         customer == q.batch[q.i]
     IN IF customer.email \in DbEmails \/ customer.name = "undefined"
        THEN /\ reqs' = [reqs EXCEPT ![r] = NextCustomer(Failed(q, "threw"))]
             /\ UNCHANGED db
        ELSE /\ db' = db \cup {Row(customer, q.user)}
             /\ reqs' = [reqs EXCEPT ![r] = NextCustomer([q EXCEPT !.success = q.success + 1])]
  /\ UNCHANGED <<pwa, modal, csv, back>>

\* DELETE: prisma.customer.deleteMany({}) and the count it reports
DELETE(r, user) ==
  /\ reqs[r].pc = "idle"
  /\ db' = {}
  /\ reqs' = [reqs EXCEPT ![r] =
                [IdleReq EXCEPT !.op = "clear", !.user = user, !.pc = "done", !.status = 200,
                                !.count = Cardinality(db)]]
  /\ UNCHANGED <<pwa, modal, csv, back>>

\* the response has been sent; the slot takes the next request
Respond(r) ==
  /\ reqs[r].pc = "done"
  /\ reqs' = [reqs EXCEPT ![r] = IdleReq]
  /\ UNCHANGED <<db, pwa, modal, csv, back>>

NextCustomers ==
  \/ \E r \in Reqs : \E user \in Tenants, batch \in Batches(r) : POST(r, user, batch)
  \/ \E r \in Reqs : FindUnique(r)
  \/ \E r \in Reqs : Create(r)
  \/ \E r \in Reqs, user \in Tenants \cup {NoSession} : DELETE(r, user)
  \/ \E r \in Reqs : Respond(r)

SpecCustomers == Init /\ [][NextCustomers]_vars

(* --------------------------- install prompt --------------------------- *)

MaxDays == 8

MaxEvents == 2

\* setTimeout(..., 3000)
PromptDelay == 3000

sevenDays == 7 * 24 * 60 * 60 * 1000

\* the step in which the clock advances while no timer is pending
OneDay == 24 * 60 * 60 * 1000

\* the value of a decimal digit
DigitValue(c) == (CHOOSE d \in 1..10 : Digit[d] = c) - 1

\* parseInt of a string of decimal digits
RECURSIVE ParseInt(_)
ParseInt(text) ==
  IF Len(text) = 1 THEN DigitValue(text[1])
  ELSE 10 * ParseInt(SubSeq(text, 1, Len(text) - 1)) + DigitValue(text[Len(text)])

\* the second effect: a dismissal less than seven days old
DismissedRecently(item, t) == item # <<>> /\ t - ParseInt(item[1]) < sevenDays

\* the page is loaded and the component mounts: fresh state, no timer, the
\* listener is added, and the second effect calls setShowPrompt(false) when
\* localStorage holds a recent dismissal
Mount ==
  /\ pwa' = [pwa EXCEPT !.mounted = TRUE, !.deferredPrompt = FALSE, !.timers = {}, !.choosing = FALSE,
                        !.showPrompt = IF DismissedRecently(pwa.dismissed, pwa.clock) THEN FALSE ELSE NoPwa.showPrompt]
  /\ UNCHANGED <<db, reqs, modal, csv, back>>

\* the browser fires beforeinstallprompt: the event is kept and a timer of
\* 3 seconds is started
Handler ==
  /\ pwa.mounted /\ pwa.events < MaxEvents
  /\ pwa' = [pwa EXCEPT !.deferredPrompt = TRUE, !.timers = pwa.timers \cup {pwa.clock + PromptDelay},
                        !.events = pwa.events + 1]
  /\ UNCHANGED <<db, reqs, modal, csv, back>>

\* the earliest timer fires: setShowPrompt(true)
Timeout ==
  /\ pwa.timers # {}
  /\ LET due == CHOOSE t \in pwa.timers : \A u \in pwa.timers : t <= u
     IN pwa' = [pwa EXCEPT !.clock = IF pwa.clock < due THEN due ELSE pwa.clock,
                           !.timers = pwa.timers \ {due}, !.showPrompt = TRUE]
  /\ UNCHANGED <<db, reqs, modal, csv, back>>

\* a day passes
DayPasses ==
  /\ pwa.timers = {}
  /\ pwa.clock + OneDay <= MaxDays * OneDay
  /\ pwa' = [pwa EXCEPT !.clock = pwa.clock + OneDay]
  /\ UNCHANGED <<db, reqs, modal, csv, back>>

\* the prompt is rendered
Rendered == pwa.mounted /\ pwa.showPrompt /\ pwa.deferredPrompt

\* the X button: the prompt is hidden and the time is stored as a string
handleDismiss ==
  /\ Rendered
  /\ pwa' = [pwa EXCEPT !.showPrompt = FALSE, !.dismissed = <<NumberToString(pwa.clock)>>]
  /\ UNCHANGED <<db, reqs, modal, csv, back>>

\* the Install button: deferredPrompt.prompt(), then the choice is awaited
handleInstall ==
  /\ Rendered /\ ~ pwa.choosing
  /\ pwa' = [pwa EXCEPT !.choosing = TRUE]
  /\ UNCHANGED <<db, reqs, modal, csv, back>>

\* userChoice resolves: the event is dropped and the prompt hidden
UserChoice(outcome) ==
  /\ pwa.choosing
  /\ pwa' = [pwa EXCEPT !.choosing = FALSE, !.deferredPrompt = FALSE, !.showPrompt = FALSE]
  /\ UNCHANGED <<db, reqs, modal, csv, back>>

NextPwa ==
  \/ Mount
  \/ Handler
  \/ Timeout
  \/ DayPasses
  \/ handleDismiss
  \/ handleInstall
  \/ \E outcome \in {"accepted", "dismissed"} : UserChoice(outcome)

SpecPwa == Init /\ [][NextPwa]_vars

(* ----------------------------- CSV parser ----------------------------- *)

MaxLine == 5

MaxText == 5

MaxFields == 3

Quote == "\""

Comma == ","

Newline == "\n"

Whitespace == {" ", Newline}

\* String.prototype.trim
RECURSIVE Trim(_)
Trim(text) ==
  IF text = <<>> THEN <<>>
  ELSE IF Head(text) \in Whitespace THEN Trim(Tail(text))
  ELSE IF text[Len(text)] \in Whitespace THEN Trim(SubSeq(text, 1, Len(text) - 1))
  ELSE text

\* String.prototype.split with a one-character separator: the pieces of
\* text, with current the piece being read
RECURSIVE Split(_, _, _)
Split(text, sep, current) ==
  IF text = <<>> THEN <<current>>
  ELSE IF Head(text) = sep THEN <<current>> \o Split(Tail(text), sep, <<>>)
  ELSE Split(Tail(text), sep, Append(current, Head(text)))

\* a splitter in which every quote toggles inQuotes, so that a doubled
\* quote yields no character
RECURSIVE parseCSVLineNoEscape(_, _, _, _, _)
parseCSVLineNoEscape(line, i, current, inQuotes, result) ==
  IF i > Len(line) THEN Append(result, current)
  ELSE IF line[i] = Quote THEN parseCSVLineNoEscape(line, i + 1, current, ~ inQuotes, result)
  ELSE IF line[i] = Comma /\ ~ inQuotes THEN parseCSVLineNoEscape(line, i + 1, <<>>, inQuotes, Append(result, current))
  ELSE parseCSVLineNoEscape(line, i + 1, Append(current, line[i]), inQuotes, result)

\* parseCSVLine: the loop from position i (counted from 1) with the locals
\* current, inQuotes and result
RECURSIVE parseCSVLine(_, _, _, _, _)
parseCSVLine(line, i, current, inQuotes, result) ==
  IF i > Len(line) THEN Append(result, current)
  ELSE LET char == line[i]
           nextChar == IF i + 1 <= Len(line) THEN line[i + 1] ELSE "undefined"
       IN IF char = Quote
          THEN IF inQuotes /\ nextChar = Quote
               THEN parseCSVLine(line, i + 2, Append(current, Quote), inQuotes, result)
               ELSE parseCSVLine(line, i + 1, current, ~ inQuotes, result)
          ELSE IF char = Comma /\ ~ inQuotes
               THEN parseCSVLine(line, i + 1, <<>>, inQuotes, Append(result, current))
               ELSE parseCSVLine(line, i + 1, Append(current, char), inQuotes, result)

\* parseCSVLine(line) as parseCSV calls it
Values(line) == parseCSVLine(line, 1, <<>>, FALSE, <<>>)

\* text.split('\n').filter(line => line.trim())
Lines(text) == SelectSeq(Split(text, Newline, <<>>), LAMBDA line : Trim(line) # <<>>)

\* lines[0].split(',').map(h => h.trim())
Headers(line) == LET hs == Split(line, Comma, <<>>) IN [j \in 1..Len(hs) |-> Trim(hs[j])]

\* the object headers.forEach fills: one property per header name; of two
\* columns with the same header the later one is kept
RowOf(headers, values) ==
  [h \in {headers[j] : j \in 1..Len(headers)} |->
     Trim(values[CHOOSE j \in 1..Len(headers) : headers[j] = h /\ \A k \in (j + 1)..Len(headers) : headers[k] # h])]

\* parseCSV: the loop over lines[1..] (here 2..Len) that pushes a row for
\* every line with as many values as headers
RECURSIVE DataLoop(_, _, _, _)
DataLoop(lines, headers, i, data) ==
  IF i > Len(lines) THEN data
  ELSE LET values == Values(lines[i])
       IN DataLoop(lines, headers, i + 1,
                   IF Len(values) = Len(headers) THEN Append(data, RowOf(headers, values)) ELSE data)

\* parseCSV up to setCsvData: empty says that it returned at 'CSV file is
\* empty' without setting anything
parseCSV(text) ==
  LET lines == Lines(text)
  IN IF Len(lines) = 0 THEN [empty |-> TRUE, data |-> <<>>]
     ELSE [empty |-> FALSE, data |-> DataLoop(lines, Headers(lines[1]), 2, <<>>)]

\* a field as a CSV writer puts it on a line: in quotes, with every quote
\* doubled; a field without comma and quote may stand as it is
RECURSIVE Doubled(_)
Doubled(field) ==
  IF field = <<>> THEN <<>>
  ELSE (IF Head(field) = Quote THEN <<Quote, Quote>> ELSE <<Head(field)>>) \o Doubled(Tail(field))

Plain(field) == \A j \in 1..Len(field) : field[j] \notin {Quote, Comma}

Written(field, always) ==
  IF Plain(field) /\ ~ always THEN field ELSE <<Quote>> \o Doubled(field) \o <<Quote>>

WrittenLine(fields, always) == Join([j \in 1..Len(fields) |-> Written(fields[j], always)], <<Comma>>)

LineChars == {"a", " ", Comma, Quote}

TextChars == {"a", " ", Comma, Quote, Newline}

FieldChars == {"a", Comma, Quote}

FieldLists == SeqsUpTo(SeqsUpTo(FieldChars, 2), MaxFields) \ {<<>>}

\* the parser is called on any line, on the line a writer makes of any list
\* of fields, and on any text
InitCsv ==
  /\ InitCache /\ built = NoBuild /\ agg = NoPage
  /\ db = {} /\ reqs = [r \in Reqs |-> IdleReq] /\ pwa = NoPwa /\ modal = NoModal
  /\ csv \in {[NoCsv EXCEPT !.op = "line", !.text = line] : line \in SeqsUpTo(LineChars, MaxLine)}
        \cup {[NoCsv EXCEPT !.op = "line", !.text = WrittenLine(fields, always), !.from = fields] :
                fields \in FieldLists, always \in BOOLEAN}
        \cup {[NoCsv EXCEPT !.op = "text", !.text = text] : text \in SeqsUpTo(TextChars, MaxText)}

ParseCSVLineCall ==
  /\ csv.op = "line"
  /\ csv' = [csv EXCEPT !.op = "parseCSVLine", !.fields = Values(csv.text)]
  /\ UNCHANGED <<db, reqs, pwa, modal, back>>

ParseCSVCall ==
  /\ csv.op = "text"
  /\ csv' = [csv EXCEPT !.op = "parseCSV", !.empty = parseCSV(csv.text).empty, !.rows = parseCSV(csv.text).data]
  /\ UNCHANGED <<db, reqs, pwa, modal, back>>

NextCsv == ParseCSVLineCall \/ ParseCSVCall

SpecCsv == InitCsv /\ [][NextCsv]_vars

(* ---------------------------- import modal ---------------------------- *)

\* the files the user can select: two valid CSV files, a CSV file with a
\* row the validation rejects, a CSV file of blank lines, an empty file,
\* and a file that is not named .csv
File(name, text) == [name |-> name, text |-> text]

DotCsv == <<".", "c", "s", "v">>

FileA == File(<<"a">> \o DotCsv, <<"h", Newline, "a">>)

FileB == File(<<"b">> \o DotCsv, <<"h", Newline, "b", Newline, "a">>)

FileInvalid == File(<<"x">> \o DotCsv, <<"h", Newline, "x">>)

FileBlank == File(<<"e">> \o DotCsv, <<Newline, " ">>)

FileEmpty == File(<<"o">> \o DotCsv, <<>>)

FileTxt == File(<<"a", ".", "t", "x", "t">>, <<"h", Newline, "a">>)

Files == {FileA, FileB, FileInvalid, FileBlank, FileEmpty, FileTxt}

\* String.prototype.endsWith
EndsWith(text, suffix) ==
  Len(suffix) <= Len(text) /\ SubSeq(text, Len(text) - Len(suffix) + 1, Len(text)) = suffix

\* the validateFn the page passes in: a row with the value x is an error
validateFn(data) ==
  LET bad == {j \in 1..Len(data) : \E h \in DOMAIN data[j] : data[j][h] = <<"x">>}
  IN [valid |-> bad = {}, errors |-> Cardinality(bad)]

\* handleFileChange: a file that is not named .csv is refused, any other
\* file is displayed and handed to a FileReader
handleFileChange(f) ==
  /\ modal.isOpen /\ modal.pc # "reload"
  /\ modal' = IF ~ EndsWith(f.name, DotCsv) THEN [modal EXCEPT !.toast = "Please upload a CSV file"]
              ELSE [modal EXCEPT !.file = f, !.reading = modal.reading \cup {f}]
  /\ UNCHANGED <<db, reqs, pwa, csv, back>>

\* reader.onload: parseCSV(text) with its setCsvData, setIsValid, setErrors
Onload(f) ==
  /\ f \in modal.reading
  /\ LET parsed == parseCSV(f.text)
         validation == validateFn(parsed.data)
         m == [modal EXCEPT !.reading = modal.reading \ {f}]
     IN modal' = IF parsed.empty THEN [m EXCEPT !.toast = "CSV file is empty"]
                 ELSE [m EXCEPT !.csvData = parsed.data, !.isValid = validation.valid,
                                !.errors = validation.errors,
                                !.toast = IF validation.valid THEN "validated" ELSE "errors"]
  /\ UNCHANGED <<db, reqs, pwa, csv, back>>

\* the Import button, enabled while isValid and not importing: importFn is
\* called with csvData
handleImport ==
  /\ modal.isOpen /\ modal.pc = "idle"
  /\ modal.isValid /\ ~ modal.importing
  /\ modal' = [modal EXCEPT !.importing = TRUE, !.pc = "importFn", !.sent = modal.csvData,
                            !.sentFile = modal.file, !.toast = "Importing data..."]
  /\ UNCHANGED <<db, reqs, pwa, csv, back>>

\* importFn resolves: the page is reloaded a second later
ImportResolve ==
  /\ modal.pc = "importFn"
  /\ modal' = [modal EXCEPT !.pc = "reload", !.toast = "success"]
  /\ UNCHANGED <<db, reqs, pwa, csv, back>>

\* window.location.reload(): the modal is built anew
Reload ==
  /\ modal.pc = "reload"
  /\ modal' = NoModal
  /\ UNCHANGED <<db, reqs, pwa, csv, back>>

\* importFn rejects: setImporting(false)
ImportReject ==
  /\ modal.pc = "importFn"
  /\ modal' = [modal EXCEPT !.pc = "idle", !.importing = FALSE, !.toast = "Import failed"]
  /\ UNCHANGED <<db, reqs, pwa, csv, back>>

\* the Cancel button: reset() and onClose()
Cancel ==
  /\ modal.isOpen /\ modal.pc # "reload"
  /\ modal' = [modal EXCEPT !.file = NoFile, !.csvData = <<>>, !.errors = 0, !.isValid = FALSE,
                            !.importing = FALSE, !.isOpen = FALSE]
  /\ UNCHANGED <<db, reqs, pwa, csv, back>>

\* the page opens the modal again; its state is kept while it is closed
Open ==
  /\ ~ modal.isOpen
  /\ modal' = [modal EXCEPT !.isOpen = TRUE]
  /\ UNCHANGED <<db, reqs, pwa, csv, back>>

NextModal ==
  \/ \E f \in Files : handleFileChange(f)
  \/ \E f \in Files : Onload(f)
  \/ handleImport
  \/ ImportResolve
  \/ Reload
  \/ ImportReject
  \/ Cancel
  \/ Open

SpecModal == Init /\ [][NextModal]_vars

(* ------------------------------ claims -------------------------------- *)

\* C1: get(k) returns the stored value iff an entry for k exists and
\* now <= expiresAt; otherwise it returns null, and an expired entry is gone
\* from the map when get returns.  No get returns the value of an entry
\* whose expiresAt is earlier than the current time.
C1_GetReturnsLiveOnly ==
  [][\A k \in Keys : Get(k) =>
       /\ last'.v = (IF k \in DOMAIN store /\ now <= store[k].expiresAt
                     THEN store[k].data ELSE Null)
       /\ (k \in DOMAIN store /\ ~(now <= store[k].expiresAt) => k \notin DOMAIN store')
       /\ (k \in DOMAIN store /\ now <= store[k].expiresAt => store' = store)
       /\ (last'.v # Null => store[k].expiresAt >= now)]_vars

\* a get at the very instant of expiry, later than time 0, returned the
\* stored value and left the entry in place
C1_Witness ==
  /\ last.op = "get" /\ last.key \in DOMAIN store
  /\ last.v = "a" /\ store[last.key].data = "a" /\ store[last.key].expiresAt = now
  /\ DOMAIN store = {last.key} /\ now > 0

\* C2: for ttl > 0, set(k, v, ttl) followed by get(k) with no time elapsed
\* returns v, and a get(k) after the clock has advanced by more than ttl
\* since the set, with no set on k in between, returns null.
C2_TTLCorrect ==
  [][\A k \in Keys :
       (/\ k \in DOMAIN store /\ origin[k].by = "set"
        /\ origin[k].ttl # <<>> /\ origin[k].ttl[1] > 0
        /\ Get(k)) =>
       /\ (now = store[k].timestamp => last'.v = origin[k].v)
       /\ (now - store[k].timestamp > origin[k].ttl[1] =>
             last'.v = Null /\ k \notin DOMAIN store')]_vars

\* set(k, "a", 2) and, at the same instant, a get that returned "a"
C2_Witness ==
  /\ last.op = "get" /\ last.v = "a" /\ last.key \in DOMAIN store
  /\ origin[last.key] = Origin("set", "a", <<2>>) /\ store[last.key].timestamp = now

\* the set step just taken, with the arguments recorded in last'
SetStep == last'.op = "set" /\ Set(last'.key, last'.v, last'.ttl, now' - now)

\* C3: set(key, value, ttl) stores expiresAt = now + ttl for every ttl the
\* caller passes, zero included; the default TTL is used only when the ttl
\* argument is omitted.
C3_DefaultOnlyWhenOmitted ==
  [][SetStep =>
       store'[last'.key].expiresAt =
         now + (IF last'.ttl = <<>> THEN defaultTTL ELSE last'.ttl[1])]_vars

\* what does hold of set: every ttl other than 0 is honoured, and an
\* omitted ttl and a ttl of 0 both give the default
SetHonoursNonZeroTTL ==
  [][SetStep =>
       store'[last'.key].expiresAt =
         now + (IF last'.ttl = <<>> \/ last'.ttl = <<0>> THEN defaultTTL ELSE last'.ttl[1])]_vars

\* C4: after set(k, v1, t1) then set(k, v2, t2) the store holds one entry
\* for k with value v2 and expiry now + t2, whatever lifetime v1 had left;
\* any value get(k) returns is the value of the most recent set on k that
\* was not followed by delete, clear or expiry.
C4_LastWriteWins ==
  [][/\ (SetStep /\ last'.key \in DOMAIN store /\ last'.ttl # <<>>) =>
          /\ DOMAIN store' = DOMAIN store
          /\ store'[last'.key].data = last'.v
          /\ store'[last'.key].expiresAt = now + last'.ttl[1]
          /\ \A k \in (DOMAIN store) \ {last'.key} : store'[k] = store[k]
     /\ \A k \in Keys : (Get(k) /\ last'.v # Null) => last'.v = origin[k].v]_vars

\* what does hold of an overwrite: C4 for every second ttl other than 0
OverwriteWinsNonZeroTTL ==
  [][/\ (SetStep /\ last'.key \in DOMAIN store /\ last'.ttl \notin {<<>>, <<0>>}) =>
          /\ DOMAIN store' = DOMAIN store
          /\ store'[last'.key].data = last'.v
          /\ store'[last'.key].expiresAt = now + last'.ttl[1]
          /\ \A k \in (DOMAIN store) \ {last'.key} : store'[k] = store[k]
     /\ \A k \in Keys : (Get(k) /\ last'.v # Null) => last'.v = origin[k].v]_vars

\* an overwrite with a shorter ttl than the first entry had left
OverwriteWitness ==
  /\ last.op = "set" /\ last.ttl = <<1>> /\ last.v = "b"
  /\ store[last.key].data = "b" /\ store[last.key].expiresAt = now + 1
  /\ now > 0 /\ hist[last.key] = "none"

\* C10: cleanup() removes exactly the entries get would report absent
\* because of expiry (expiresAt < now) and keeps every other entry
\* unchanged; stats().size decreases by the number of entries removed.
C10_CleanupAgreesWithGet ==
  [][Cleanup =>
       /\ DOMAIN store' = {k \in DOMAIN store : ~(store[k].expiresAt < now)}
       /\ \A k \in DOMAIN store' : store'[k] = store[k]
       /\ \A k \in DOMAIN store : (k \notin DOMAIN store') <=> (k \notin DOMAIN GetStore(store, now, k))
       /\ Stats(store').size = Stats(store).size - last'.removed]_vars

\* a cleanup removed one expired entry and kept one that expires this instant
C10_Witness ==
  /\ last.op = "cleanup" /\ last.removed = 1
  /\ \E k \in DOMAIN store : store[k].expiresAt = now

\* key = x \o pattern \o y for some strings x and y
ContainsLiteral(key, pattern) ==
  \E i \in 0..Len(key), j \in 0..Len(key) : i <= j /\ SubSeq(key, i + 1, j) = pattern

\* C8: invalidateCache(pattern) deletes exactly the stored keys that
\* contain pattern as a literal substring, leaves every other entry (key,
\* value and expiry) unchanged, and returns the number of entries it
\* deleted, which equals the decrease of stats().size.
C8_InvalidateBySubstring ==
  [][(last'.op = "invalidateCache" /\ InvalidateCache(last'.key)) =>
       /\ DOMAIN store' = {k \in DOMAIN store : ~ContainsLiteral(k, last'.key)}
       /\ \A k \in DOMAIN store' : store'[k] = store[k]
       /\ last'.n = Cardinality((DOMAIN store) \ (DOMAIN store'))
       /\ last'.n = Stats(store).size - Stats(store').size]_vars

\* with c:a, c:p and p:a stored, invalidateCache("c") returned 2 and kept p:a
C8_Witness ==
  /\ last.op = "invalidateCache" /\ last.key = <<"c">>
  /\ last.n = 2 /\ last.removed = 2
  /\ DOMAIN store = {KeyPA}

\* key k holds no entry a get would return (none, or an expired one)
NoLiveEntry(k) == k \notin DOMAIN store \/ now > store[k].expiresAt

\* C5: whatever value the producer resolves to (null included), a second
\* getOrSet(k, producer, ttl), ttl > 0, less than ttl after the first one
\* stored its result does not invoke the producer and returns the same
\* value; more than ttl after it, the producer is invoked again.  No call
\* invokes the producer more than once.
C5_CacheThenReuse ==
  [][\A p \in Tasks, k \in TaskKeys, ttl \in TaskTTLs :
       GetOrSetCall(p, k, ttl) =>
         /\ tasks'[p].calls <= 1
         /\ (origin[k].by = "getOrSet" /\ origin[k].ttl = ttl /\ ttl[1] > 0 /\ k \in DOMAIN store) =>
              /\ (now - store[k].timestamp < ttl[1] =>
                    /\ tasks'[p].pc = "done" /\ tasks'[p].calls = 0
                    /\ tasks'[p].out = "value" /\ tasks'[p].data = origin[k].v)
              /\ (now - store[k].timestamp > ttl[1] =>
                    tasks'[p].pc = "fetching" /\ tasks'[p].calls = 1)]_vars

\* what does hold of getOrSet: C5 for every producer result other than
\* null, while a cached null is a miss that invokes the producer again
ReuseUnlessNull ==
  [][\A p \in Tasks, k \in TaskKeys, ttl \in TaskTTLs :
       GetOrSetCall(p, k, ttl) =>
         /\ tasks'[p].calls <= 1
         /\ (origin[k].by = "getOrSet" /\ origin[k].ttl = ttl /\ ttl[1] > 0 /\ k \in DOMAIN store) =>
              /\ (now - store[k].timestamp < ttl[1] /\ origin[k].v # Null =>
                    /\ tasks'[p].pc = "done" /\ tasks'[p].calls = 0
                    /\ tasks'[p].out = "value" /\ tasks'[p].data = origin[k].v)
              /\ (now - store[k].timestamp > ttl[1] \/ origin[k].v = Null =>
                    tasks'[p].pc = "fetching" /\ tasks'[p].calls = 1)]_vars

\* a second getOrSet hit the value the first one cached
ReuseWitness ==
  /\ tasks["t1"].pc = "done" /\ tasks["t1"].calls = 1 /\ tasks["t1"].data = "a"
  /\ tasks["t2"].pc = "done" /\ tasks["t2"].calls = 0 /\ tasks["t2"].data = "a"
  /\ tasks["t1"].key = tasks["t2"].key /\ last.op = "none" /\ now = 1

\* C6: when two getOrSet calls on one key both observe a miss before either
\* has stored its result, both invoke their producer, each returns its own
\* producer's result, and the store holds the value and the expiry of the
\* set that executed last.
C6_ConcurrentMisses ==
  [][\A p \in Tasks, q \in Tasks :
       (p # q /\ tasks[q].op = "getOrSet" /\ tasks[q].calls = 1) =>
          /\ \A k \in TaskKeys, ttl \in TaskTTLs :
               (tasks[q].pc = "fetching" /\ tasks[q].key = k /\ NoLiveEntry(k)
                /\ GetOrSetCall(p, k, ttl)) =>
                 /\ tasks'[p].pc = "fetching" /\ tasks'[p].calls = 1
                 /\ tasks'[q] = tasks[q]
          /\ \A v \in StoreValues, d \in SetDelays :
               (tasks[p].pc = "fetching" /\ tasks[q].key = tasks[p].key
                /\ FetcherResolve(p, v, d)) =>
                 /\ tasks'[p].pc = "done" /\ tasks'[p].out = "value" /\ tasks'[p].data = v
                 /\ tasks'[q] = tasks[q]
                 /\ store'[tasks[p].key].data = v
                 /\ store'[tasks[p].key].expiresAt = now + tasks[p].ttl[1]]_vars

\* two calls raced on one key at time 0: both invoked their producer, t1
\* returned "a", t2 returned "b", and the store holds one of the two
C6_Witness ==
  /\ tasks["t1"].pc = "done" /\ tasks["t1"].calls = 1 /\ tasks["t1"].data = "a"
  /\ tasks["t2"].pc = "done" /\ tasks["t2"].calls = 1 /\ tasks["t2"].data = "b"
  /\ tasks["t1"].key = tasks["t2"].key
  /\ now = 0 /\ last.op = "none"
  /\ store[tasks["t1"].key].data = "a"

\* C7: if the producer fails, the failure reaches the caller of getOrSet,
\* nothing is stored, and a later getOrSet on the key invokes the producer
\* again; getOrSet does not retry.
C7_ProducerFailure ==
  [][/\ \A p \in Tasks :
          FetcherReject(p) =>
            /\ tasks'[p].pc = "done" /\ tasks'[p].out = "error" /\ tasks'[p].calls = 1
            /\ store' = store
     /\ \A p \in Tasks, q \in Tasks, k \in TaskKeys, ttl \in TaskTTLs :
          (p # q /\ tasks[q].out = "error" /\ tasks[q].key = k /\ k \notin DOMAIN store
           /\ GetOrSetCall(p, k, ttl)) =>
            tasks'[p].pc = "fetching" /\ tasks'[p].calls = 1]_vars

\* t1's producer failed, the key holds no entry, and t2's call on the same
\* key has invoked its producer
C7_Witness ==
  /\ tasks["t1"].pc = "done" /\ tasks["t1"].out = "error"
  /\ tasks["t1"].key \notin DOMAIN store
  /\ tasks["t2"].pc = "fetching" /\ tasks["t2"].calls = 1
  /\ tasks["t2"].key = tasks["t1"].key /\ last.op = "none"

\* C9: once invalidateCache(p) or invalidateAllCache() has returned, no
\* get, getOrSet or withCache read of an invalidated key returns a value
\* produced by a producer or handler that started before the invalidation,
\* under any interleaving of populations in flight with the invalidation.
C9_NoStaleAfterInvalidation ==
  [][/\ \A k \in TaskKeys : (Get(k) /\ last'.v # Null) => hist[k] # "stale"
     /\ \A p \in Tasks, k \in TaskKeys, ttl \in ApiTTLs :
          /\ (GetOrSetCall(p, k, ttl) /\ tasks'[p].pc = "done") => hist[k] # "stale"
          /\ (WithCacheCall(p, "GET", k, ttl) /\ tasks'[p].pc = "done") => hist[k] # "stale"]_vars

\* C9 as amended: an invalidation removes every entry whose key it covers,
\* so until the next set on such a key every get, getOrSet and withCache
\* read of it misses: no read returns a value stored before the
\* invalidation.  (A population in flight during the invalidation still
\* stores its result afterwards.)
C9_NoValueStoredBeforeInvalidation ==
  [][/\ (last'.op = "invalidateCache" /\ InvalidateCache(last'.key)) =>
          \A k \in Keys : ContainsLiteral(k, last'.key) => k \notin DOMAIN store'
     /\ InvalidateAllCache => DOMAIN store' = {}
     /\ \A k \in TaskKeys : (Get(k) /\ hist[k] = "inval") => last'.v = Null
     /\ \A p \in Tasks, k \in TaskKeys, ttl \in ApiTTLs :
          /\ (GetOrSetCall(p, k, ttl) /\ hist[k] = "inval") => tasks'[p].pc = "fetching"
          /\ (WithCacheCall(p, "GET", k, ttl) /\ hist[k] = "inval") => tasks'[p].pc = "handler"]_vars

\* an invalidation ran while a population was in flight on the key, and a
\* get of the key after it found nothing
C9_Witness ==
  /\ last.op = "get" /\ last.v = Null /\ hist[last.key] = "inval"
  /\ \E p \in Tasks : tasks[p].pre /\ tasks[p].key = last.key

\* the later of an entry's expiry and its creation
StaleSince(e) == IF e.expiresAt > e.timestamp THEN e.expiresAt ELSE e.timestamp

\* key k holds an entry that has expired
HoldsExpired(k) == k \in DOMAIN store /\ now > store[k].expiresAt

C12_ExpiresAfterCreated ==
  \A k \in DOMAIN store : store[k].expiresAt > store[k].timestamp

\* what does hold: an entry stored with no ttl argument or with a ttl >= 0,
\* the clock standing still inside set, expires after it was created
ExpiresAfterCreatedUnlessNegative ==
  \A k \in DOMAIN store :
    (origin[k].ttl = <<>> \/ origin[k].ttl[1] >= 0) /\ store[k].timestamp = store[k].expiresAt - TTLOrDefault(origin[k].ttl)
      => store[k].expiresAt > store[k].timestamp

\* C13: stats() returns size = the number of stored entries and keys = the
\* set of all stored keys, expired entries that are still in the map
\* included; size is the number of keys returned; stats() adds, removes and
\* changes no entry.
C13_StatsCountsAllStored ==
  [][StatsCall =>
       /\ last'.n = Cardinality(DOMAIN store)
       /\ last'.keys = DOMAIN store
       /\ last'.n = Cardinality(last'.keys)
       /\ \A k \in DOMAIN store : now > store[k].expiresAt => k \in last'.keys
       /\ store' = store]_vars

\* stats() counted two entries, one of them expired and still in the map
C13_Witness ==
  /\ last.op = "stats" /\ last.n = 2 /\ last.keys = DOMAIN store
  /\ \E k \in last.keys : now > store[k].expiresAt
  /\ \E k \in last.keys : now <= store[k].expiresAt

\* the texts of a parts list
Texts(parts) == [i \in 1..Len(parts) |-> PartText(parts[i])]

\* the (pathname, query string) pair of a request URL
PathAndQuery(url) == <<url.pathname, SearchParamsToString(url.params)>>

\* no part of the list holds the delimiter
DelimiterFree(parts) == \A i \in 1..Len(parts) : ~Includes(PartText(parts[i]), <<":">>)

\* C14: createCacheKey returns different keys for any two different
\* ordered sequences of parts, and the keys withCache builds from
\* (pathname, query string) differ whenever the pairs differ.
C14_KeysCollisionFree ==
  /\ (built.op = "createCacheKey" /\ built.a # built.b) => built.ka # built.kb
  /\ (built.op = "withCache" /\ PathAndQuery(built.a) # PathAndQuery(built.b)) => built.ka # built.kb

\* C14 as amended: createCacheKey returns different keys for two parts
\* lists of at least one part each whose parts hold no ':' and whose texts
\* differ; for any parts list the key is the parts' texts joined by ':';
\* the keys withCache builds from (pathname, query string) differ whenever
\* the pairs differ, the serialised query string holding no ':'.
C14_DelimiterFreeKeysDistinct ==
  /\ (/\ built.op = "createCacheKey"
       /\ Len(built.a) >= 1 /\ Len(built.b) >= 1
       /\ DelimiterFree(built.a) /\ DelimiterFree(built.b)
       /\ Texts(built.a) # Texts(built.b)) => built.ka # built.kb
  /\ (built.op = "createCacheKey" /\ Len(built.a) = 2) =>
        built.ka = PartText(built.a[1]) \o <<":">> \o PartText(built.a[2])
  /\ (built.op = "withCache" /\ PathAndQuery(built.a) # PathAndQuery(built.b)) =>
        /\ built.ka # built.kb
        /\ ~Includes(SearchParamsToString(built.a.params), <<":">>)

\* the parts ("a", "aa") and ("aa", "a") got the keys a:aa and aa:a
C14_Witness ==
  /\ built.op = "createCacheKey"
  /\ built.a = <<Str(<<"a">>), Str(<<"a", "a">>)>> /\ built.b = <<Str(<<"a", "a">>), Str(<<"a">>)>>
  /\ built.ka = <<"a", ":", "a", "a">> /\ built.kb = <<"a", "a", ":", "a">>

\* every response a request got carries the data of the tenant that sent it
ResponsesBelongToRequester ==
  \A p \in Tasks :
    (tasks[p].pc = "done" /\ tasks[p].out = "response") => tasks[p].data = TenantData(TenantOf(p))

\* C15: every key under which withCache stores a response includes the
\* identifier of the requesting tenant, and no response body cached while
\* serving one tenant is returned to a request of another tenant.
C15_NoCrossTenantLeak ==
  /\ \A k \in DOMAIN store : Includes(k, TenantChars(store[k].data))
  /\ ResponsesBelongToRequester

\* what does hold: a response that did not come from the cache (X-Cache:
\* MISS) carries the requester's data
MissBelongsToRequester ==
  \A p \in Tasks :
    (tasks[p].pc = "done" /\ tasks[p].xcache = "MISS") => tasks[p].data = TenantData(TenantOf(p))

\* the step is a step of the call in slot p
Moved(p) == tasks'[p].pc # tasks[p].pc

\* the step adds no entry and overwrites none
NoWrite == \A k \in DOMAIN store' : k \in DOMAIN store /\ store'[k] = store[k]

\* C16: a request whose method is not GET goes straight to the handler and
\* never reads, adds or overwrites a cache entry; a GET whose handler
\* response is not ok never adds or overwrites an entry: the only step of
\* withCache that writes is the one that stores the body of an ok response
\* to a GET.
C16_OnlySuccessfulGetCached ==
  [][\A p \in Tasks :
       (Moved(p) /\ tasks'[p].op = "withCache") =>
          /\ tasks'[p].method # "GET" =>
                /\ store' = store
                /\ tasks'[p].calls = 1
                /\ tasks'[p].pc \in {"passthru", "done"}
                /\ tasks'[p].xcache = "none"
          /\ (tasks'[p].method = "GET" /\ tasks[p].pc # "cloneJson") => NoWrite
          /\ tasks[p].pc = "cloneJson" =>
                /\ tasks[p].method = "GET" /\ tasks[p].ok
                /\ store'[tasks[p].key].data = tasks[p].data
          /\ (tasks[p].pc = "handler" /\ tasks'[p].pc # "done" /\ ~tasks'[p].ok) =>
                tasks'[p].pc = "respJson"]_vars

\* a POST was answered by its handler and a GET got a response that is not
\* ok, and the cache holds nothing
C16_Witness ==
  /\ tasks["t1"].method = "POST" /\ tasks["t1"].pc = "done" /\ tasks["t1"].ok
  /\ tasks["t1"].out = "response" /\ tasks["t1"].data = "a"
  /\ tasks["t2"].method = "GET" /\ tasks["t2"].pc = "done" /\ ~tasks["t2"].ok
  /\ tasks["t2"].xcache = "MISS" /\ tasks["t2"].calls = 1
  /\ store = EmptyStore

\* C17: a GET is answered from the cache, without the handler, with
\* X-Cache: HIT and the stored body, exactly when a live entry exists for
\* its key, whatever JSON body was stored; otherwise the handler is invoked
\* once and the answer has the handler's status and body and X-Cache: MISS.
C17_HitIffLiveEntry ==
  [][/\ \A p \in Tasks, k \in TaskKeys, ttl \in ApiTTLs :
          WithCacheCall(p, "GET", k, ttl) =>
            IF k \in DOMAIN store /\ now <= store[k].expiresAt
            THEN /\ tasks'[p].pc = "done" /\ tasks'[p].calls = 0
                 /\ tasks'[p].xcache = "HIT" /\ tasks'[p].data = store[k].data
            ELSE tasks'[p].pc = "handler" /\ tasks'[p].calls = 1
     /\ \A p \in Tasks :
          (tasks[p].pc = "respJson" /\ RespJsonResolve(p)) =>
            /\ tasks'[p].pc = "done" /\ tasks'[p].out = "response" /\ tasks'[p].calls = 1
            /\ tasks'[p].xcache = "MISS"
            /\ tasks'[p].data = tasks[p].data /\ tasks'[p].ok = tasks[p].ok]_vars

\* what does hold: C17 with "a live entry whose body is truthy" for "a live
\* entry"; a live entry with a falsy body is a miss
HitIffLiveTruthyEntry ==
  [][/\ \A p \in Tasks, k \in TaskKeys, ttl \in ApiTTLs :
          WithCacheCall(p, "GET", k, ttl) =>
            IF k \in DOMAIN store /\ now <= store[k].expiresAt /\ Truthy(store[k].data)
            THEN /\ tasks'[p].pc = "done" /\ tasks'[p].calls = 0
                 /\ tasks'[p].xcache = "HIT" /\ tasks'[p].data = store[k].data
            ELSE tasks'[p].pc = "handler" /\ tasks'[p].calls = 1
     /\ \A p \in Tasks :
          (tasks[p].pc = "respJson" /\ RespJsonResolve(p)) =>
            /\ tasks'[p].pc = "done" /\ tasks'[p].out = "response" /\ tasks'[p].calls = 1
            /\ tasks'[p].xcache = "MISS"
            /\ tasks'[p].data = tasks[p].data /\ tasks'[p].ok = tasks[p].ok]_vars

\* the second of two identical GETs within the TTL was a HIT
HitWitness ==
  /\ tasks["t1"].pc = "done" /\ tasks["t1"].xcache = "MISS" /\ tasks["t1"].ok
  /\ tasks["t2"].pc = "done" /\ tasks["t2"].xcache = "HIT" /\ tasks["t2"].calls = 0
  /\ tasks["t2"].data = tasks["t1"].data /\ tasks["t1"].key = tasks["t2"].key

\* the sum of quantity over the rows of the table whose product id is id
RECURSIVE SumQuantity(_, _)
SumQuantity(table, id) ==
  IF table = <<>> THEN 0
  ELSE (IF Head(table).productId = id THEN Head(table).quantity ELSE 0) + SumQuantity(Tail(table), id)

\* the sum of quantity x unit price over the rows whose product id is id
RECURSIVE SumRevenue(_, _)
SumRevenue(table, id) ==
  IF table = <<>> THEN 0
  ELSE (IF Head(table).productId = id THEN Head(table).quantity * Head(table).price ELSE 0)
       + SumRevenue(Tail(table), id)

\* C18: the aggregation yields one metrics record per product, in input
\* order; totalSold is the sum of quantity and totalRevenue the sum of
\* quantity x unit price over the line items of the product, and a product
\* with no line items is present with 0 and 0.
C18_PerEntityTotals ==
  agg.op = "rendered" =>
    /\ Len(agg.productsWithMetrics) = Len(agg.products)
    /\ \A i \in 1..Len(agg.products) :
         LET q == agg.productsWithMetrics[i]
         IN /\ q.id = agg.products[i].id
            /\ q.totalSold = SumQuantity(agg.table, q.id)
            /\ q.totalRevenue = SumRevenue(agg.table, q.id)
            /\ (\A j \in 1..Len(agg.table) : agg.table[j].productId # q.id) =>
                  q.totalSold = 0 /\ q.totalRevenue = 0

\* products A and B with the line items A: 2 x 5, A: 1 x 5, B: 0 x 3 gave
\* A 3 sold and 15 revenue, B 0 and 0
C18_Witness ==
  /\ agg.op = "rendered" /\ Ids(agg.products) = <<"A", "B">>
  /\ agg.table = <<[productId |-> "A", quantity |-> 2, price |-> 5],
                    [productId |-> "A", quantity |-> 1, price |-> 5],
                    [productId |-> "B", quantity |-> 0, price |-> 3]>>
  /\ agg.productsWithMetrics[1].totalSold = 3 /\ agg.productsWithMetrics[1].totalRevenue = 15
  /\ agg.productsWithMetrics[2].totalSold = 0 /\ agg.productsWithMetrics[2].totalRevenue = 0

InputIndex(id) == CHOOSE i \in 1..Len(agg.products) : agg.products[i].id = id

\* the elements of a list
Range(list) == {list[i] : i \in 1..Len(list)}

\* C20: the sorted sequence is a permutation of all product metrics in
\* non-increasing order of totalSold in which products with equal totalSold
\* keep their input order; top sellers are its first 3 elements and slow
\* movers its last 3 (all of them when fewer than 3 exist); the input list
\* is not reordered; with 3 to 5 products the two overlap, and with 4
\* products they share exactly 2.
C20_Ranking ==
  agg.op = "rendered" =>
    LET sorted == agg.sortedBySold
        n == Len(agg.products)
    IN /\ Len(sorted) = n
       /\ Range(sorted) = Range(agg.productsWithMetrics)
       /\ \A i \in 1..n, j \in 1..n :
            i < j =>
              /\ sorted[i].totalSold >= sorted[j].totalSold
              /\ sorted[i].totalSold = sorted[j].totalSold =>
                    InputIndex(sorted[i].id) < InputIndex(sorted[j].id)
       /\ agg.topSellers = [i \in 1..(IF n < TopN THEN n ELSE TopN) |-> sorted[i].id]
       /\ agg.slowMovers = [i \in 1..(IF n < TopN THEN n ELSE TopN) |->
                              sorted[(IF n < TopN THEN 0 ELSE n - TopN) + i].id]
       /\ Ids(agg.productsWithMetrics) = Ids(agg.products)
       /\ n = 4 => Cardinality(Range(agg.topSellers) \cap Range(agg.slowMovers)) = 2
       /\ (n >= TopN /\ n < 2 * TopN) =>
             Cardinality(Range(agg.topSellers) \cap Range(agg.slowMovers)) = 2 * TopN - n

\* four products sold 1, 2, 1, 2: the ranking is P2, P4, P1, P3, top
\* sellers and slow movers share P4 and P1
C20_Witness ==
  /\ agg.op = "rendered" /\ Ids(agg.products) = <<"P1", "P2", "P3", "P4">>
  /\ Ids(agg.sortedBySold) = <<"P2", "P4", "P1", "P3">>
  /\ agg.topSellers = <<"P2", "P4", "P1">> /\ agg.slowMovers = <<"P4", "P1", "P3">>

\* the sum of totalRevenue over the metrics records of category c
RECURSIVE SumCategoryRevenue(_, _)
SumCategoryRevenue(list, c) ==
  IF list = <<>> THEN 0
  ELSE (IF Head(list).category = c THEN Head(list).totalRevenue ELSE 0) + SumCategoryRevenue(Tail(list), c)

\* C21: for every category that occurs among the products the rollup holds
\* count = the number of products of the category and revenue = the sum of
\* their totalRevenue; there is no rollup for a label no product carries,
\* and each product is counted in exactly one category.
C21_CategoryRollup ==
  agg.op = "rendered" =>
    LET list == agg.productsWithMetrics
    IN /\ DOMAIN agg.categoryMap = {list[i].category : i \in 1..Len(list)}
       /\ \A c \in DOMAIN agg.categoryMap :
            /\ agg.categoryMap[c].count = Cardinality({i \in 1..Len(list) : list[i].category = c})
            /\ agg.categoryMap[c].revenue = SumCategoryRevenue(list, c)
       /\ \A i \in 1..Len(list) :
            Cardinality({c \in DOMAIN agg.categoryMap : list[i].category = c}) = 1

\* two products of one category, A with revenue 10 and B with revenue 5,
\* are rolled up to count 2 and revenue 15
C21_Witness ==
  /\ agg.op = "rendered" /\ Len(agg.products) = 2
  /\ agg.productsWithMetrics[1].totalRevenue = 10 /\ agg.productsWithMetrics[2].totalRevenue = 5
  /\ DOMAIN agg.categoryMap = {"hot"}
  /\ agg.categoryMap["hot"] = [count |-> 2, revenue |-> 15]

\* the rows of the table whose product is in the product list
RECURSIVE KnownRows(_)
KnownRows(table) ==
  IF table = <<>> THEN <<>>
  ELSE (IF \E i \in 1..Len(agg.products) : agg.products[i].id = Head(table).productId
        THEN <<Head(table)>> ELSE <<>>) \o KnownRows(Tail(table))

\* C22: a line item whose product id matches no product of the list
\* contributes to no product's totalSold or totalRevenue and to no category
\* rollup: the metrics and the rollups are those of the table without it,
\* whether the query has filtered it out or it reaches the aggregation loop.
C22_UnknownProductDropped ==
  agg.op = "rendered" =>
    LET known == KnownRows(agg.table)
        unfiltered == ProductsWithMetrics(agg.products, MetricsMap(agg.table, <<>>))
        without == ProductsWithMetrics(agg.products, MetricsMap(known, <<>>))
    IN /\ agg.productsWithMetrics = without
       /\ unfiltered = without
       /\ \A i \in 1..Len(agg.products) :
            /\ agg.productsWithMetrics[i].totalSold = SumQuantity(known, agg.products[i].id)
            /\ agg.productsWithMetrics[i].totalRevenue = SumRevenue(known, agg.products[i].id)
       /\ agg.categoryMap = CategoryMap(without, <<>>)
       /\ agg.sortedBySold = SortBySold(without, <<>>)

\* the table holds a row of product C, which is not in the list <<A, B>>,
\* next to a row of A; A has the totals of its own row and B has none
C22_Witness ==
  /\ agg.op = "rendered" /\ Ids(agg.products) = <<"A", "B">>
  /\ agg.table = <<[productId |-> "C", quantity |-> 2, price |-> 5],
                    [productId |-> "A", quantity |-> 1, price |-> 5]>>
  /\ agg.productsWithMetrics[1].totalSold = 1 /\ agg.productsWithMetrics[1].totalRevenue = 5
  /\ agg.productsWithMetrics[2].totalSold = 0 /\ agg.productsWithMetrics[2].totalRevenue = 0
  /\ agg.revenueShown = 5

\* the sum of totalRevenue over a list of metrics records
RECURSIVE SumTotalRevenue(_)
SumTotalRevenue(list) ==
  IF list = <<>> THEN 0 ELSE Head(list).totalRevenue + SumTotalRevenue(Tail(list))

\* the sum of count over the rollups of the categories cs
RECURSIVE SumCounts(_)
SumCounts(cs) ==
  IF cs = {} THEN 0
  ELSE LET c == CHOOSE x \in cs : TRUE IN agg.categoryMap[c].count + SumCounts(cs \ {c})

\* C29: the sum of count over all category rollups is the number of
\* products, and the sum of revenue over all rollups, which is the total the
\* page shows, is the sum of totalRevenue over all product metrics.
C29_RollupConservation ==
  agg.op = "rendered" =>
    /\ SumCounts(DOMAIN agg.categoryMap) = Len(agg.products)
    /\ agg.revenueShown = SumTotalRevenue(agg.productsWithMetrics)

\* two categories with the same revenue 10 each: the page shows 20
C29_Witness ==
  /\ agg.op = "rendered" /\ DOMAIN agg.categoryMap = {"hot", "cold"}
  /\ agg.categoryMap["hot"] = [count |-> 1, revenue |-> 10]
  /\ agg.categoryMap["cold"] = [count |-> 1, revenue |-> 10]
  /\ agg.revenueShown = 20

\* C27: invalidateCache("") matches every stored key, since every string
\* includes the empty string: it leaves the store as invalidateAllCache does
\* (empty, expired entries included) and returns the size stats() reported
\* before the call.
C27_EmptyPatternClearsAll ==
  [][InvalidateCache(<<>>) =>
       /\ store' = EmptyStore
       /\ last'.n = Stats(store).size
       /\ Stats(store').size = 0 /\ Stats(store').keys = {}
       /\ hist' = MarkHist(Keys) /\ tasks' = MarkTasks(Keys)]_vars

\* invalidateCache("") has returned 3 and the store is empty
C27_Witness ==
  /\ last.op = "invalidateCache" /\ last.key = <<>> /\ last.n = 3
  /\ store = EmptyStore

\* the entry under k is live: get(k) finds it and it has not expired
Live(k) == k \in DOMAIN store /\ ~ GetExpired(store[k], now)

\* the read of p's call found a hit: the call is done without a fetch
HitDone(p) == tasks'[p].pc = "done" /\ tasks'[p].calls = 0

\* C25: a read that finds a live entry (get, has, getOrSet, withCache on
\* GET) leaves the store as it was, so expiresAt is never extended: it stays
\* the time of the set that created the entry plus that set's ttl, and once
\* the clock has passed it no read returns the entry.
C25_ReadLeavesStore ==
  [][/\ \A k \in TaskKeys : Live(k) /\ (Get(k) \/ Has(k)) => store' = store
     /\ \A p \in Tasks, k \in TaskKeys, ttl \in ReadTTLs :
          Live(k) /\ (GetOrSetCall(p, k, ttl) \/ WithCacheCall(p, "GET", k, ttl)) => store' = store
     /\ \A k \in DOMAIN store' :
          /\ store'[k].expiresAt = store'[k].timestamp + TTLOrDefault(origin'[k].ttl)
          /\ now' > store'[k].timestamp + TTLOrDefault(origin'[k].ttl) => GetValue(store', now', k) = Null]_vars

\* an entry stored with ttl 2 at time 0 has been read by get at time 2, its
\* last live millisecond, and is still stored with expiresAt 2
C25_Witness ==
  /\ last.op = "get" /\ last.key = KeyCA /\ last.v = "a" /\ now = 2
  /\ KeyCA \in DOMAIN store /\ store[KeyCA].timestamp = 0 /\ store[KeyCA].expiresAt = 2
  /\ \E p \in Tasks : tasks[p].pc = "done" /\ tasks[p].xcache = "HIT"

\* C23: DELETE on the customers table removes the rows of the requesting
\* user only: the rows of every other user are still stored afterwards, the
\* reported count is the number of the requester's rows that were removed,
\* and a request without a session removes nothing.
C23_ClearOnlyOwnCustomers ==
  [][\A r \in Reqs :
       reqs[r].pc = "idle" /\ reqs'[r].op = "clear" =>
         /\ {c \in db : c.owner # reqs'[r].user} \subseteq db'
         /\ reqs'[r].count = Cardinality({c \in db : c.owner = reqs'[r].user})
         /\ reqs'[r].user = NoSession => db' = db]_vars

\* an import whose array holds objects only
ObjectsOnly(q) == \A j \in 1..Len(q.batch) : q.batch[j].kind = "object"

\* C28: every import of a non-empty customers array is answered with
\* success + failed = the number of customers submitted and errors.length =
\* failed; a customer whose email is already stored fails and stores no row,
\* a failure does not stop the loop, and every stored row has totalSpent,
\* visitCount and loyaltyPoints 0.
C28_ImportCounts ==
  /\ \A r \in Reqs :
       reqs[r].op = "import" /\ reqs[r].pc = "done" /\ reqs[r].batch # <<>> =>
         /\ reqs[r].status = 200
         /\ reqs[r].i = Len(reqs[r].batch) + 1
         /\ reqs[r].success + reqs[r].failed = Len(reqs[r].batch)
         /\ Len(reqs[r].errors) = reqs[r].failed
  /\ \A c \in db : c.totalSpent = 0 /\ c.visitCount = 0 /\ c.loyaltyPoints = 0
  /\ Cardinality(DbEmails) = Cardinality(db)

\* the counts of C28 for the arrays that hold objects only, with or without
\* an email and a name: these hold
ImportCountsOfObjects ==
  /\ \A r \in Reqs :
       reqs[r].op = "import" /\ reqs[r].pc = "done" /\ reqs[r].batch # <<>> /\ ObjectsOnly(reqs[r]) =>
         /\ reqs[r].status = 200
         /\ reqs[r].i = Len(reqs[r].batch) + 1
         /\ reqs[r].success + reqs[r].failed = Len(reqs[r].batch)
         /\ Len(reqs[r].errors) = reqs[r].failed
  /\ \A c \in db : c.totalSpent = 0 /\ c.visitCount = 0 /\ c.loyaltyPoints = 0
  /\ Cardinality(DbEmails) = Cardinality(db)

\* a customer whose email is stored fails and leaves the table as it is,
\* and a row is stored only by a step that counts one success
DuplicateEmailFails ==
  [][\A r \in Reqs :
       /\ reqs[r].pc \in {"find", "create"} /\ reqs[r].batch[reqs[r].i].email \in DbEmails
            /\ reqs'[r] # reqs[r]
            => db' = db /\ reqs'[r].failed = reqs[r].failed + 1 /\ reqs'[r].success = reqs[r].success
       /\ reqs[r].op = "import" /\ reqs'[r].op = "import" /\ db' # db /\ reqs'[r] # reqs[r]
            => reqs'[r].success = reqs[r].success + 1 /\ Cardinality(db') = Cardinality(db) + 1]_vars

\* C24: while less than seven days have passed since the time stored under
\* pwa-install-dismissed, the component is in no state with showPrompt true
\* and a deferred prompt present, whatever events, timers and mounts occur.
C24_NoPromptAfterDismissal ==
  DismissedRecently(pwa.dismissed, pwa.clock) => ~ (pwa.showPrompt /\ pwa.deferredPrompt)

\* the number of quote characters before position i of line
QuotesBefore(line, i) == Cardinality({j \in 1..(i - 1) : line[j] = Quote})

\* the commas of line outside quoted sections: those with an even number of
\* quote characters before them
OuterCommas(line) == {i \in 1..Len(line) : line[i] = Comma /\ QuotesBefore(line, i) % 2 = 0}

\* text without its quote characters
Unquoted(text) == SelectSeq(text, LAMBDA c : c # Quote)

\* C30: parseCSVLine returns one more field than the line has commas
\* outside quoted sections; all characters but quotes are kept in order, the
\* commas inside quoted sections within their fields; from the line a CSV
\* writer makes of a list of fields (fields quoted, quotes doubled) it
\* returns these fields, so a doubled quote yields one quote and the
\* delimiting quotes yield nothing.  parseCSV keeps, in order, exactly the
\* non-blank lines after the header that have as many fields as the header.
C30_QuoteAwareSplitter ==
  /\ csv.op = "parseCSVLine" =>
       /\ Len(csv.fields) = Cardinality(OuterCommas(csv.text)) + 1
       /\ Unquoted(Join(csv.fields, <<Comma>>)) = Unquoted(csv.text)
       /\ csv.from # <<>> => csv.fields = csv.from
  /\ csv.op = "parseCSV" =>
       LET lines == Lines(csv.text)
           n == IF lines = <<>> THEN 0 ELSE Len(Headers(lines[1]))
           kept == IF lines = <<>> THEN <<>>
                   ELSE SelectSeq(Tail(lines), LAMBDA line : Cardinality(OuterCommas(line)) + 1 = n)
       IN /\ csv.empty <=> lines = <<>>
          /\ Len(csv.rows) = Len(kept)
          /\ \A j \in 1..Len(kept) : csv.rows[j] = RowOf(Headers(lines[1]), Values(kept[j]))

\* the line ",""",a is split into the field of a comma and a quote and the
\* field a
C30_Witness ==
  /\ csv.op = "parseCSVLine"
  /\ csv.text = <<Quote, Comma, Quote, Quote, Quote, Comma, "a">>
  /\ csv.fields = <<<<Comma, Quote>>, <<"a">>>>

\* C26: whenever isValid is true and no file is being read, csvData is the
\* rows parsed from the file the modal displays and validateFn accepts them,
\* after any sequence of selections, cancels and failed imports; importFn is
\* called with the validated rows of the displayed file only.
C26_ValidDataOfCurrentFile ==
  /\ modal.isValid /\ modal.reading = {} =>
       /\ modal.file # NoFile
       /\ modal.csvData = parseCSV(modal.file.text).data
       /\ validateFn(modal.csvData).valid
  /\ modal.pc = "importFn" =>
       /\ modal.sentFile # NoFile
       /\ modal.sent = parseCSV(modal.sentFile.text).data
       /\ validateFn(modal.sent).valid

\* what does hold: the rows held while isValid is true have been parsed from
\* some selected file and accepted by validateFn
ValidDataOfSomeFile ==
  /\ modal.isValid => validateFn(modal.csvData).valid /\ \E f \in Files : modal.csvData = parseCSV(f.text).data
  /\ modal.pc = "importFn" => validateFn(modal.sent).valid /\ \E f \in Files : modal.sent = parseCSV(f.text).data

====
